---- MODULE Spec2Model ----
(***************************************************************************)
(* Monitoring scheduler of the vacancy bot (services/monitoring_service.py) *)
(* together with the vacancy store it de-duplicates against, the handlers   *)
(* that drive it (bot/handlers/monitoring.py, filters.py, search.py) and    *)
(* the notification step.                                                   *)
(*                                                                          *)
(* Everything runs on one asyncio event loop: a step of the model is the    *)
(* code executed between two suspension points (await of the scraper, await *)
(* of bot.send_message).  `await self.stop_monitoring_task(...)` contains   *)
(* no inner suspension and is therefore part of the step that calls it.     *)
(* A coroutine that has ended leaves nothing behind but its effects: the    *)
(* rows it wrote, the messages it delivered.                                *)
(***************************************************************************)
EXTENDS Integers, Sequences, FiniteSets, TLC

\* ------------------------------------------------------------------ bounds
MaxRuns == 2           \* check-run coroutines created in one behaviour
MaxScrapeLen == 2      \* length of a scrape result that may repeat records
MaxNew == 6            \* length of the longest scrape result (all distinct)
MaxRetries == 3        \* largest `retries` _fetch_page is called with
MaxTime == 10          \* clock ticks (of 0.4 s) in one behaviour
MaxWaits == 2          \* calls of RateLimiter.wait by one caller
MaxPages == 11         \* pages one call of parse_vacancies gets to fetch
MaxKept == 2           \* records one call of parse_vacancies gets to accumulate
MaxRequests == 21      \* recorded requests with which _fetch_page is still called
MaxRecorded == 3       \* timestamps a throttler under test gets to hold
MaxAccepted == 7       \* items one call of parse_vacancies gets to accept
MaxLinks == 2          \* links in the pagination control of a first page

\* ------------------------------------------------------- program constants
max_instances == 1     \* job_defaults["max_instances"]
max_detailed == 5      \* _send_notifications: max_detailed
min_delay == 5         \* RateLimiter.min_delay: 2.0 s, in ticks of 0.4 s
cooldown_seconds == 5  \* _fetch_page: asyncio.sleep(5) after a veto
hour == 3600           \* can_make_request: the window of the hourly limit
minute == 60           \* can_make_request: the window of the per-minute limit
max_detail_errors == 5 \* parse_vacancies: max_detail_errors
page_size == 20        \* get_total_pages: `len(job_blocks) >= 20`
fallback_pages == 10   \* get_total_pages: `return 10`

Tasks == {1, 2}
Filters == Tasks       \* task t watches filter t
Users == {"u1"}
source_name == "gsz.gov.by"

Min(a, b) == IF a < b THEN a ELSE b

ExternalIds == 1..MaxNew

\* vacancy_data as produced by the parser: the de-duplication key only
VacancyData(k) == [external_id |-> k, source |-> source_name]
AllVacancyData == {VacancyData(k) : k \in ExternalIds}

RECURSIVE SeqsUpTo(_, _)
SeqsUpTo(S, n) ==
    IF n = 0 THEN {<<>>}
    ELSE LET shorter == SeqsUpTo(S, n - 1)
         IN  shorter \cup {Append(s, x) : s \in {q \in shorter : Len(q) = n - 1}, x \in S}

\* results parse_vacancies may return
ShortScrapes == SeqsUpTo({VacancyData(1), VacancyData(2)}, MaxScrapeLen)
LongScrapes == {[i \in 1..n |-> VacancyData(i)] : n \in 0..MaxNew}

\* intervals offered by monitor_start_filter_callback
interval_hours(t) == IF t % 2 = 1 THEN 3 ELSE 24
filter_id(t) == t
user_id(t) == "u1"
job_id(t) == <<"monitor_task", t>>

VARIABLES
    tasks,       \* monitoring_tasks table: task id -> row
    filters,     \* filters table: filter id -> row
    users,       \* users table: user id -> row
    vacancies,   \* vacancies table: number of rows per (external_id, source)
    task_jobs,   \* MonitoringService._task_jobs: task id -> job id
    jobs,        \* scheduler job store: job id -> [args, hours]
    instances,   \* executor's count of running instances per job (by task id)
    runs,        \* the _check_new_vacancies coroutines created so far
    outbox,      \* messages bot.send_message delivered, tagged with the run
    handed,      \* per key, the number of batches given to _send_notifications
    ret,         \* what the step just taken returned, if it was a call of the
                 \* service's start_monitoring_task, stop_monitoring_task or restore_tasks
    fetch,       \* one call of GszParser._fetch_page: its loop and what it did
    limiter,     \* per GszParser instance, its RateLimiter: lock and timestamp
    callers,     \* the coroutines that call rate_limiter.wait()
    now,         \* datetime.now(), in ticks
    requests,    \* the returns of wait(), after each of which a request is sent
    parse,       \* one call of GszParser.parse_vacancies: its arguments and locals
    throttler,   \* a RequestThrottler: its limits, request_times and the clock
                 \* it reads, in seconds
    detail,      \* the detail enrichment of one call of parse_vacancies
    pagination,  \* one call of GszParser.get_total_pages and what it returned
    scheduler    \* whether the service's AsyncIOScheduler is running

\* the state of the parsers, which the service's steps leave alone
parserVars == <<fetch, limiter, callers, now, requests, parse, throttler>>

\* what only the steps written for it change
restVars == <<detail, pagination, scheduler>>

vars == <<tasks, filters, users, vacancies, task_jobs, jobs, instances, runs,
          outbox, handed, ret, parserVars, restVars>>

\* a table row; exists = FALSE stands for "no such row" (the lookup returns None)
Row(exists, active) == [exists |-> exists, is_active |-> active]
Missing == Row(FALSE, FALSE)
TaskRow(exists, active, checks) ==
    [exists |-> exists, is_active |-> active, last_check |-> checks]

Called(op, t, ok) == [op |-> op, task |-> t, ok |-> ok]
NoCall == Called("none", 0, FALSE)

\* GszParser instances (each check run and each search constructs its own,
\* and with it its own RateLimiter) and the coroutines that call wait()
Parsers == {1, 2}
Callers == {1, 2}

\* Optional[datetime]
None == [set |-> FALSE, at |-> 0]
Some(t) == [set |-> TRUE, at |-> t]

\* RateLimiter.__init__; locked_by = 0: the asyncio.Lock is free
NewLimiter == [locked_by |-> 0, last_request_time |-> None]
\* a caller is "out" of wait(), "queued" on its lock or "sleeping" in it,
\* holding the lock; parser = 0: it has not called yet; queued: whether
\* its last call had to queue
NewCaller ==
    [pc |-> "out", parser |-> 0, delay |-> 0, wake |-> 0, waits |-> 0,
     queued |-> FALSE]

\* parse_vacancies before its first call.  pc is "idle", "paging" (in the
\* loop over the pages, about to fetch `page`), "returned" or "raised".
\* limit = 0 is limit=None; city and company tell whether that filter is
\* active.  fetched, last_page and cause are history: the pages fetched by
\* the loop, what the last of them was ("failed", "empty" or "items") and
\* what made the call raise ("callback" or "item").  pages, reported and
\* delayed are history too: the page numbers the call built a search url
\* for and fetched, in order; the call of the progress callback made in
\* the last step, if any; and whether the last pass of the loop ended in
\* the sleep between pages.
NoReport == [made |-> FALSE, page |-> 0, planned |-> 0, count |-> 0]
Report(page, planned, count) ==
    [made |-> TRUE, page |-> page, planned |-> planned, count |-> count]
NoParse ==
    [pc |-> "idle", limit |-> 0, city |-> FALSE, company |-> FALSE,
     progress_callback |-> FALSE, max_pages_to_try |-> 0, page |-> 0,
     consecutive_empty_pages |-> 0, vacancies |-> << >>,
     fetched |-> 0, last_page |-> "none", cause |-> "none",
     pages |-> << >>, reported |-> NoReport, delayed |-> FALSE]

\* _fetch_page before its first call: pc is "idle", "cooldown" (in the
\* sleep after a veto of the throttler), "waiting" (in rate_limiter.wait()),
\* "running" (in the loop) or "returned"; seen are the outcomes of the
\* attempts made, sleeps the backoff sleeps taken, result what was
\* returned.  vetoed, cooldown, waits and gets_since_wait are history:
\* whether can_make_request() said False, the seconds slept because of
\* that, the calls of wait() that returned, and the GETs issued since the
\* last of them.
NoResult == [kind |-> "none", attempt |-> 0]
NoFetch ==
    [pc |-> "idle", retries |-> 0, attempt |-> 0, seen |-> << >>,
     sleeps |-> << >>, result |-> NoResult,
     vetoed |-> FALSE, cooldown |-> 0, waits |-> 0, gets_since_wait |-> 0]

\* the detail enrichment of parse_vacancies before the call: pc is "idle"
\* or "running"; vacancies holds, for every item appended to the result,
\* what became of its detail page ("fetched": parse_vacancy_detail gave a
\* dict, "failed": it gave None, "skipped": it was not called).  accepted
\* is history: the items that passed the filters of the loop so far
NoDetail ==
    [pc |-> "idle", fetch_details |-> FALSE, detail_fetch_errors |-> 0,
     vacancies |-> << >>, accepted |-> 0]

\* what get_total_pages finds on the first page of the search: whether
\* _fetch_page gave html, whether one of the pagination selectors matched,
\* the <a> elements of the match and the number of div.job-block
FirstPage(html, control, links, job_blocks) ==
    [html |-> html, control |-> control, links |-> links, job_blocks |-> job_blocks]

\* get_total_pages before its first call; then the page it saw and the
\* number it returned
NoPagination ==
    [pc |-> "idle", page |-> FirstPage(FALSE, FALSE, << >>, 0), result |-> 0]

\* RequestThrottler.__init__
NewThrottler(per_minute, per_hour) ==
    [requests_per_minute |-> per_minute, requests_per_hour |-> per_hour,
     request_times |-> << >>, clock |-> 0]

\* The store outlives the process: at construction of the service the tasks
\* and filters are present and active and the owning user row is in any of
\* the states the users table allows (absent, is_active false or true).
Init ==
    /\ tasks = [t \in Tasks |-> TaskRow(TRUE, TRUE, 0)]
    /\ filters = [f \in Filters |-> Row(TRUE, TRUE)]
    /\ users \in [Users -> {Missing, Row(TRUE, FALSE), Row(TRUE, TRUE)}]
    /\ vacancies = [v \in AllVacancyData |-> 0]
    /\ task_jobs = << >>
    /\ jobs = << >>
    /\ instances = [t \in Tasks |-> 0]
    /\ runs = << >>
    /\ outbox = << >>
    /\ handed = [v \in AllVacancyData |-> 0]
    /\ ret = NoCall
    /\ fetch = NoFetch
    /\ limiter = [p \in Parsers |-> NewLimiter]
    /\ callers = [c \in Callers |-> NewCaller]
    /\ now = 0
    /\ requests = << >>
    /\ parse = NoParse
    /\ throttler = NewThrottler(20, 500)
    /\ detail = NoDetail
    /\ pagination = NoPagination
    /\ scheduler = "running"

\* ---------------------------------------------------------------- helpers
Without(f, x) == [y \in DOMAIN f \ {x} |-> f[y]]
With(f, x, v) == [y \in DOMAIN f \cup {x} |-> IF y = x THEN v ELSE f[y]]
Range(q) == {q[i] : i \in DOMAIN q}

\* a coroutine: pc is "created" (scheduled on the loop, not yet run),
\* "scraping" (awaiting parse_vacancies), "sending" (awaiting send_message)
\* or "done"
NewRun(t, origin) ==
    [task |-> t, origin |-> origin, pc |-> "created", new |-> <<>>, attempts |-> 0]
Ended == [task |-> 0, origin |-> "none", pc |-> "done", new |-> <<>>, attempts |-> 0]

Finish(r) == [runs EXCEPT ![r] = Ended]

\* a scheduler-launched run releases its instance slot when it ends
Release(r) ==
    IF runs[r].origin = "interval"
    THEN [instances EXCEPT ![runs[r].task] = @ - 1]
    ELSE instances

\* ------------------------------------------------------ VacancyRepository
\* (bug variant: the lookup never finds the row)
get_by_external_id_and_source_blind(store, external_id, source) == FALSE

get_by_external_id_and_source(store, external_id, source) ==
    store[[external_id |-> external_id, source |-> source]] > 0

create(store, vacancy_data) == [store EXCEPT ![vacancy_data] = @ + 1]

\* ---------------------------------------------------- MonitoringRepository
\* (bug variant: the timestamp is set but never committed)
update_last_check_uncommitted(t) == tasks

update_last_check(t) ==
    IF tasks[t].exists
    THEN [tasks EXCEPT ![t].last_check = @ + 1]
    ELSE tasks

\* --------------------------------------------------- start_monitoring_task
\* (bug variant: no check for an existing timer)
StartRejected_no_timer_check(t) ==
    \/ ~tasks[t].exists
    \/ ~tasks[t].is_active

\* the three early returns of start_monitoring_task
StartRejected(t) ==
    \/ ~tasks[t].exists
    \/ ~tasks[t].is_active
    \/ t \in DOMAIN task_jobs

\* (bug variant: the first check waits for the interval)
start_monitoring_task_no_initial_run(t) ==
    IF StartRejected(t)
    THEN /\ ret' = Called("start", t, FALSE)
         /\ UNCHANGED <<parserVars, tasks, filters, users, vacancies, task_jobs, jobs,
                        instances, runs, outbox, handed, restVars>>
    ELSE /\ jobs' = With(jobs, job_id(t), [args |-> t, hours |-> interval_hours(t)])
         /\ task_jobs' = With(task_jobs, t, job_id(t))
         /\ ret' = Called("start", t, TRUE)
         /\ UNCHANGED <<parserVars, tasks, filters, users, vacancies, instances, runs, outbox,
                        handed, restVars>>

start_monitoring_task(t) ==
    IF StartRejected(t)
    THEN /\ ret' = Called("start", t, FALSE)
         /\ UNCHANGED <<parserVars, tasks, filters, users, vacancies, task_jobs, jobs,
                        instances, runs, outbox, handed, restVars>>
    ELSE /\ Len(runs) < MaxRuns
         /\ jobs' = With(jobs, job_id(t), [args |-> t, hours |-> interval_hours(t)])
         /\ task_jobs' = With(task_jobs, t, job_id(t))
         /\ runs' = Append(runs, NewRun(t, "initial"))
         /\ ret' = Called("start", t, TRUE)
         /\ UNCHANGED <<parserVars, tasks, filters, users, vacancies, instances, outbox, handed, restVars>>

\* ---------------------------------------------------- stop_monitoring_task
\* (bug variant: the job is removed but the timer map keeps the task)
StopResult_keeps_entry(t) ==
    IF t \notin DOMAIN task_jobs
    THEN [task_jobs |-> task_jobs, jobs |-> jobs, ok |-> FALSE]
    ELSE [task_jobs |-> task_jobs,
          jobs |-> Without(jobs, task_jobs[t]),
          ok |-> TRUE]

\* the timer map, the job store and the result after stop_monitoring_task(t);
\* remove_job raises for a job the scheduler does not have, and the
\* handler of the exception returns False
StopResult(t) ==
    IF t \notin DOMAIN task_jobs \/ task_jobs[t] \notin DOMAIN jobs
    THEN [task_jobs |-> task_jobs, jobs |-> jobs, ok |-> FALSE]
    ELSE [task_jobs |-> Without(task_jobs, t),
          jobs |-> Without(jobs, task_jobs[t]),
          ok |-> TRUE]

stop_monitoring_task(t) ==
    /\ task_jobs' = StopResult(t).task_jobs
    /\ jobs' = StopResult(t).jobs
    /\ ret' = Called("stop", t, StopResult(t).ok)
    /\ UNCHANGED <<parserVars, tasks, filters, users, vacancies, instances, runs, outbox, handed, restVars>>

\* ----------------------------------------------------------- restore_tasks
\* MonitoringRepository.get_active_tasks
get_active_tasks == {t \in Tasks : tasks[t].exists /\ tasks[t].is_active}

\* the orders in which the query may return the rows in S (it has no ORDER BY)
Orders(S) ==
    {q \in SeqsUpTo(S, Cardinality(S)) : Len(q) = Cardinality(S) /\ Range(q) = S}

\* start_monitoring_task(t) as a function of the scheduler's state
\* st = [task_jobs, jobs, runs], for the calls restore_tasks makes in a row
Started(st, t) ==
    IF ~tasks[t].exists \/ ~tasks[t].is_active \/ t \in DOMAIN st.task_jobs
    THEN st
    ELSE [task_jobs |-> With(st.task_jobs, t, job_id(t)),
          jobs |-> With(st.jobs, job_id(t), [args |-> t, hours |-> interval_hours(t)]),
          runs |-> Append(st.runs, NewRun(t, "initial"))]

RECURSIVE RestoreFrom(_, _, _)
RestoreFrom(order, i, st) ==
    IF i > Len(order) THEN st
    ELSE RestoreFrom(order, i + 1, Started(st, order[i]))

\* (bug variant: only the first active task is restored)
RestoreLoop_first_only(order) ==
    RestoreFrom(SubSeq(order, 1, Min(1, Len(order))), 1,
                [task_jobs |-> task_jobs, jobs |-> jobs, runs |-> runs])

\* for task in active_tasks: await self.start_monitoring_task(task.id)
RestoreLoop(order) ==
    RestoreFrom(order, 1, [task_jobs |-> task_jobs, jobs |-> jobs, runs |-> runs])

\* post_init calls restore_tasks before any handler or job runs: the timer
\* map and the job store are as __init__ left them and no coroutine exists
restore_tasks ==
    /\ DOMAIN task_jobs = {} /\ DOMAIN jobs = {} /\ runs = << >>
    /\ Cardinality(get_active_tasks) <= MaxRuns
    /\ \E order \in Orders(get_active_tasks) :
          /\ task_jobs' = RestoreLoop(order).task_jobs
          /\ jobs' = RestoreLoop(order).jobs
          /\ runs' = RestoreLoop(order).runs
    /\ ret' = Called("restore", 0, TRUE)
    /\ UNCHANGED <<parserVars, tasks, filters, users, vacancies, instances, outbox, handed, restVars>>

\* ---------------------------------------------------- _check_new_vacancies
TaskUsable(t) == tasks[t].exists /\ tasks[t].is_active
FilterUsable(f) == filters[f].exists /\ filters[f].is_active
UserUsable(u) == users[u].exists

\* (bug variant: the filter is not re-checked)
ChecksPass_no_filter_check(t) ==
    /\ TaskUsable(t)
    /\ UserUsable(user_id(t))

ChecksPass(t) ==
    /\ TaskUsable(t)
    /\ FilterUsable(filter_id(t))
    /\ UserUsable(user_id(t))

\* from the start of the coroutine to the await of parse_vacancies
check_new_vacancies_begin(r) ==
    /\ r \in DOMAIN runs
    /\ runs[r].pc = "created"
    /\ LET t == runs[r].task IN
       IF ChecksPass(t)
       THEN /\ runs' = [runs EXCEPT ![r].pc = "scraping"]
            /\ UNCHANGED <<parserVars, task_jobs, jobs, instances, restVars>>
       ELSE /\ task_jobs' = StopResult(t).task_jobs
            /\ jobs' = StopResult(t).jobs
            /\ runs' = Finish(r)
            /\ instances' = Release(r)
    /\ ret' = NoCall
    /\ UNCHANGED <<parserVars, tasks, filters, users, vacancies, outbox, handed, restVars>>

\* the loop over the scraped records: look up, skip or insert and collect.
\* The insert of item number failAt raises (0: no insert raises).
RECURSIVE DedupLoop(_, _, _, _, _)
DedupLoop(vs, i, store, new, failAt) ==
    IF i > Len(vs)
    THEN [store |-> store, new |-> new, raised |-> FALSE]
    ELSE IF get_by_external_id_and_source(store, vs[i].external_id, vs[i].source)
    THEN DedupLoop(vs, i + 1, store, new, failAt)
    ELSE IF i = failAt
    THEN [store |-> store, new |-> new, raised |-> TRUE]
    ELSE DedupLoop(vs, i + 1, create(store, vs[i]), Append(new, vs[i]), failAt)

DetailMessage(new, i) ==
    [kind |-> "detail", vacancy |-> new[i], index |-> i, total |-> Len(new)]
SummaryMessage(new) ==
    [kind |-> "summary", vacancy |-> <<>>, index |-> Len(new) - max_detailed,
     total |-> Len(new)]

\* the messages _send_notifications sends for the batch, in order
NotificationPlan(new) ==
    [i \in 1..Min(Len(new), max_detailed) |-> DetailMessage(new, i)]
    \o (IF Len(new) > max_detailed THEN <<SummaryMessage(new)>> ELSE <<>>)

\* the batches counted per key
Hand(new) == [v \in AllVacancyData |-> handed[v] + (IF v \in Range(new) THEN 1 ELSE 0)]

\* parse_vacancies returned vs: everything up to the first send_message.
\* rowGoneRaises: whether reading task.user_id / filter_obj.name of a row
\* deleted during the scrape raises (it depends on the session's expiry).
check_new_vacancies_scraped(r, vs, failAt, rowGoneRaises) ==
    /\ r \in DOMAIN runs
    /\ runs[r].pc = "scraping"
    /\ LET t == runs[r].task
           res == DedupLoop(vs, 1, vacancies, <<>>, failAt)
       IN
       /\ vacancies' = res.store
       /\ IF res.raised
          THEN /\ runs' = Finish(r)
               /\ instances' = Release(r)
               /\ UNCHANGED <<parserVars, tasks, handed, restVars>>
          ELSE /\ tasks' = update_last_check(t)
               /\ IF res.new = <<>>
                  THEN /\ runs' = Finish(r)
                       /\ instances' = Release(r)
                       /\ UNCHANGED handed
                  ELSE IF (~tasks[t].exists \/ ~filters[filter_id(t)].exists)
                          /\ rowGoneRaises
                  THEN /\ runs' = Finish(r)
                       /\ instances' = Release(r)
                       /\ UNCHANGED handed
                  ELSE IF ~users[user_id(t)].exists
                  THEN /\ runs' = Finish(r)
                       /\ instances' = Release(r)
                       /\ handed' = Hand(res.new)
                  ELSE /\ runs' = [runs EXCEPT ![r].pc = "sending", ![r].new = res.new]
                       /\ handed' = Hand(res.new)
                       /\ UNCHANGED instances
    /\ ret' = NoCall
    /\ UNCHANGED <<parserVars, filters, users, task_jobs, jobs, outbox, restVars>>

\* (bug variant: the failed scrape still counts as a completed check)
check_new_vacancies_scrape_error_counts(r) ==
    /\ r \in DOMAIN runs
    /\ runs[r].pc = "scraping"
    /\ runs' = Finish(r)
    /\ instances' = Release(r)
    /\ tasks' = update_last_check(runs[r].task)
    /\ ret' = NoCall
    /\ UNCHANGED <<parserVars, filters, users, vacancies, task_jobs, jobs, outbox, handed, restVars>>

\* parse_vacancies raised ParserError: logged by the handler of the run
check_new_vacancies_scrape_error(r) ==
    /\ r \in DOMAIN runs
    /\ runs[r].pc = "scraping"
    /\ runs' = Finish(r)
    /\ instances' = Release(r)
    /\ ret' = NoCall
    /\ UNCHANGED <<parserVars, tasks, filters, users, vacancies, task_jobs, jobs, outbox, handed, restVars>>

\* one await of app.bot.send_message completes: delivered, or it raised
send_message(r, delivered) ==
    /\ r \in DOMAIN runs
    /\ runs[r].pc = "sending"
    /\ LET plan == NotificationPlan(runs[r].new)
           k == runs[r].attempts + 1
       IN
       IF delivered
       THEN /\ outbox' = Append(outbox, [run |-> r, message |-> plan[k]])
            /\ runs' = IF k = Len(plan) THEN Finish(r)
                       ELSE [runs EXCEPT ![r].attempts = k]
            /\ instances' = IF k = Len(plan) THEN Release(r) ELSE instances
       ELSE /\ runs' = Finish(r)
            /\ instances' = Release(r)
            /\ UNCHANGED outbox
    /\ ret' = NoCall
    /\ UNCHANGED <<parserVars, tasks, filters, users, vacancies, task_jobs, jobs, handed, restVars>>

\* ------------------------------------------------------------- scheduler
\* the interval trigger of a job fires: the executor starts the coroutine
\* unless max_instances instances of the job are running, and then drops it
interval_fire(t) ==
    /\ job_id(t) \in DOMAIN jobs
    /\ IF instances[t] >= max_instances
       THEN UNCHANGED <<parserVars, runs, instances, restVars>>
       ELSE /\ Len(runs) < MaxRuns
            /\ runs' = Append(runs, NewRun(jobs[job_id(t)].args, "interval"))
            /\ instances' = [instances EXCEPT ![t] = @ + 1]
    /\ ret' = NoCall
    /\ UNCHANGED <<parserVars, tasks, filters, users, vacancies, task_jobs, jobs, outbox, handed, restVars>>

\* MonitoringService.shutdown, called from post_shutdown when the process
\* ends: scheduler.shutdown(wait=True) and nothing else.  What the
\* scheduler's job store holds after it is the library's choice: the jobs
\* as they were, or none
shutdown ==
    /\ scheduler = "running"
    /\ scheduler' = "stopped"
    /\ jobs' \in {jobs, << >>}
    /\ ret' = NoCall
    /\ UNCHANGED <<parserVars, tasks, filters, users, vacancies, task_jobs, instances,
                   runs, outbox, handed, detail, pagination>>

\* --------------------------------------------------------------- handlers
monitor_run_now_callback(t) ==
    /\ users[user_id(t)].exists
    /\ tasks[t].exists
    /\ Len(runs) < MaxRuns
    /\ runs' = Append(runs, NewRun(t, "manual"))
    /\ ret' = NoCall
    /\ UNCHANGED <<parserVars, tasks, filters, users, vacancies, task_jobs, jobs, instances,
                   outbox, handed, restVars>>

monitor_stop_task_callback(t) ==
    /\ users[user_id(t)].exists
    /\ tasks[t].exists
    /\ task_jobs' = StopResult(t).task_jobs
    /\ jobs' = StopResult(t).jobs
    /\ tasks' = [tasks EXCEPT ![t].is_active = FALSE]
    /\ ret' = NoCall
    /\ UNCHANGED <<parserVars, filters, users, vacancies, instances, runs, outbox, handed, restVars>>

filter_toggle_callback(f) ==
    /\ \E u \in Users : users[u].exists
    /\ filters[f].exists
    /\ filters' = [filters EXCEPT ![f].is_active = ~@]
    /\ ret' = NoCall
    /\ UNCHANGED <<parserVars, tasks, users, vacancies, task_jobs, jobs, instances, runs,
                   outbox, handed, restVars>>

\* the filter's monitoring tasks are deleted with it (cascade)
filter_delete_callback(f) ==
    /\ \E u \in Users : users[u].exists
    /\ filters[f].exists
    /\ filters' = [filters EXCEPT ![f] = Missing]
    /\ tasks' = [t \in Tasks |->
                    IF filter_id(t) = f
                    THEN TaskRow(FALSE, FALSE, tasks[t].last_check)
                    ELSE tasks[t]]
    /\ ret' = NoCall
    /\ UNCHANGED <<parserVars, users, vacancies, task_jobs, jobs, instances, runs, outbox, handed, restVars>>

\* the save loop of an interactive search over the records it scraped
search_save(vs, failAt) ==
    /\ vs # <<>>
    /\ vacancies' = DedupLoop(vs, 1, vacancies, <<>>, failAt).store
    /\ ret' = NoCall
    /\ UNCHANGED <<parserVars, tasks, filters, users, task_jobs, jobs, instances, runs,
                   outbox, handed, restVars>>

\* -------------------------------------------------------- RequestThrottler
\* the instants, in seconds, at which the throttler's clock is read
Times == {0, 59, 60, 3599, 3600, 3659, 3660}

\* the limits a RequestThrottler is constructed with
Limits == [per_minute : {1, 2}, per_hour : {2, 3}]

\* the timestamps of throttler th that are less than `window` seconds old
Younger(th, window) ==
    SelectSeq(th.request_times, LAMBDA t : th.clock - t < window)

\* (bug variant: a timestamp of exactly one hour ago is kept)
Evicted_late(th) ==
    [th EXCEPT !.request_times = SelectSeq(@, LAMBDA t : th.clock - t <= hour)]

\* `self.request_times = [... if (now - req_time).total_seconds() < 3600]`
Evicted(th) == [th EXCEPT !.request_times = Younger(th, hour)]

\* can_make_request(): the answer and the throttler after the call
can_make_request(th) ==
    LET kept == Evicted(th)
    IN  [throttler |-> kept,
         allowed |->
            /\ ~(Len(kept.request_times) >= kept.requests_per_hour)
            /\ ~(Len(Younger(kept, minute)) >= kept.requests_per_minute)]

\* record_request()
record_request(th) == [th EXCEPT !.request_times = Append(@, th.clock)]

\* a RequestThrottler with other limits is constructed
new_throttler(limits) ==
    /\ throttler = NewThrottler(20, 500)
    /\ throttler' = NewThrottler(limits.per_minute, limits.per_hour)
    /\ ret' = NoCall
    /\ UNCHANGED <<tasks, filters, users, vacancies, task_jobs, jobs, instances,
                   runs, outbox, handed, fetch, limiter, callers, now, requests, parse, restVars>>

\* a coroutine calls can_make_request()
can_make_request_call ==
    /\ throttler' = can_make_request(throttler).throttler
    /\ ret' = Called("can_make_request", 0, can_make_request(throttler).allowed)
    /\ UNCHANGED <<tasks, filters, users, vacancies, task_jobs, jobs, instances,
                   runs, outbox, handed, fetch, limiter, callers, now, requests, parse, restVars>>

\* a coroutine calls record_request()
record_request_call ==
    /\ Len(throttler.request_times) < MaxRecorded
    /\ throttler' = record_request(throttler)
    /\ ret' = Called("record_request", 0, TRUE)
    /\ UNCHANGED <<tasks, filters, users, vacancies, task_jobs, jobs, instances,
                   runs, outbox, handed, fetch, limiter, callers, now, requests, parse, restVars>>

\* time passes, up to a later instant
throttler_advance(t) ==
    /\ t > throttler.clock
    /\ throttler' = [throttler EXCEPT !.clock = t]
    /\ ret' = NoCall
    /\ UNCHANGED <<tasks, filters, users, vacancies, task_jobs, jobs, instances,
                   runs, outbox, handed, fetch, limiter, callers, now, requests, parse, restVars>>

\* ------------------------------------------------------ GszParser._fetch_page
\* the Retry-After header of a response: absent, a number of seconds, or an
\* HTTP-date that lies `seconds` ahead
Header(form, seconds) == [form |-> form, seconds |-> seconds]
NoHeader == Header("absent", 0)
Headers == {NoHeader, Header("seconds", 10), Header("date", 10)}

\* what one attempt (session.get and the reading of the body) comes to: a
\* response with a status, asyncio.TimeoutError, or another exception
Response(status, retry_after) ==
    [kind |-> "status", status |-> status, retry_after |-> retry_after]
Outcomes ==
    {Response(st, NoHeader) : st \in {200, 404, 503, 403, 500}}
    \cup {Response(429, h) : h \in Headers}
    \cup {[kind |-> "timeout", status |-> 0, retry_after |-> NoHeader],
          [kind |-> "error", status |-> 0, retry_after |-> NoHeader]}

\* (bug variant: a header that is no number counts as absent)
RetryAfter_default(h) ==
    CASE h.form = "seconds" -> [raised |-> FALSE, value |-> h.seconds]
      [] OTHER -> [raised |-> FALSE, value |-> 60]

\* int(response.headers.get("Retry-After", 60)): the default when the header
\* is absent, the number when it is one, ValueError for a date
RetryAfter(h) ==
    CASE h.form = "absent" -> [raised |-> FALSE, value |-> 60]
      [] h.form = "seconds" -> [raised |-> FALSE, value |-> h.seconds]
      [] OTHER -> [raised |-> TRUE, value |-> 0]

\* asyncio.sleep(seconds + random.uniform(0, jitter)) taken after attempt
Sleep(after, seconds, jitter) ==
    [after |-> after, seconds |-> seconds, jitter |-> jitter]

\* (bug variant: a 404 is retried like any other status)
AttemptEnds_retry_404(o) ==
    IF o.kind = "status" /\ o.status = 200 THEN "body" ELSE "retry"

\* whether the attempt returns the body, returns None or goes on
AttemptEnds(o) ==
    CASE o.kind = "status" /\ o.status = 200 -> "body"
      [] o.kind = "status" /\ o.status = 404 -> "null"
      [] OTHER -> "retry"

\* the sleep the branch taken for outcome o of attempt a asks for; the
\* branches for 429, 503 and 403 end in `continue`, every other failure
\* (a ValueError of int() included) reaches the backoff after the try
Backoff(o, a) ==
    CASE o.kind = "status" /\ o.status = 429 /\ ~RetryAfter(o.retry_after).raised
            -> Sleep(a, RetryAfter(o.retry_after).value, 0)
      [] o.kind = "status" /\ o.status = 503 -> Sleep(a, 5 * (a + 1), 3)
      [] o.kind = "status" /\ o.status = 403 -> Sleep(a, 30 * (a + 1), 0)
      [] OTHER -> Sleep(a, 2 ^ a, 1)

\* (bug variant: a veto of the throttler ends the call)
AfterThrottle_fails(allowed) == IF allowed THEN "waiting" ELSE "returned"

\* `if not await can_make_request(): await asyncio.sleep(5)`: where the
\* call goes after the answer of the throttler
AfterThrottle(allowed) == IF allowed THEN "waiting" ELSE "cooldown"

\* _fetch_page(url, retries) is called and asks the throttler
fetch_page_call(retries) ==
    /\ fetch.pc \in {"idle", "returned"}
    /\ Len(throttler.request_times) < MaxRequests
    /\ LET answer == can_make_request(throttler)
       IN  /\ throttler' = answer.throttler
           /\ fetch' = [NoFetch EXCEPT !.pc = AfterThrottle(answer.allowed),
                                       !.retries = retries,
                                       !.vetoed = ~answer.allowed]
    /\ ret' = NoCall
    /\ UNCHANGED <<tasks, filters, users, vacancies, task_jobs, jobs, instances,
                   runs, outbox, handed, limiter, callers, now, requests, parse, restVars>>

\* the sleep after the veto is over
fetch_page_cooldown ==
    /\ fetch.pc = "cooldown"
    /\ fetch' = [fetch EXCEPT !.pc = "waiting", !.cooldown = @ + cooldown_seconds]
    /\ ret' = NoCall
    /\ UNCHANGED <<tasks, filters, users, vacancies, task_jobs, jobs, instances,
                   runs, outbox, handed, limiter, callers, now, requests, parse,
                   throttler, restVars>>

\* rate_limiter.wait() of the fetching parser (parser 1) returns, and the
\* loop is entered: with retries <= 0 it has no pass
fetch_page_wait ==
    /\ fetch.pc = "waiting"
    /\ limiter[1].locked_by = 0
    /\ limiter' = [limiter EXCEPT ![1].last_request_time = Some(now)]
    /\ fetch' = IF fetch.retries <= 0
                THEN [fetch EXCEPT !.pc = "returned", !.waits = @ + 1,
                                   !.gets_since_wait = 0,
                                   !.result = [kind |-> "null", attempt |-> 0]]
                ELSE [fetch EXCEPT !.pc = "running", !.waits = @ + 1,
                                   !.gets_since_wait = 0]
    /\ ret' = NoCall
    /\ UNCHANGED <<tasks, filters, users, vacancies, task_jobs, jobs, instances,
                   runs, outbox, handed, callers, now, requests, parse, throttler, restVars>>

\* one pass of the loop `for attempt in range(retries)`: session.get is
\* issued, with outcome o; a response is recorded with the throttler
fetch_page_attempt(o) ==
    /\ fetch.pc = "running"
    /\ throttler' = IF o.kind = "status" THEN record_request(throttler) ELSE throttler
    /\ LET a == fetch.attempt
           seen == Append(fetch.seen, o)
           gets == fetch.gets_since_wait + 1
       IN  fetch' =
             CASE AttemptEnds(o) = "body" ->
                    [fetch EXCEPT !.pc = "returned", !.seen = seen,
                                  !.gets_since_wait = gets,
                                  !.result = [kind |-> "body", attempt |-> a]]
               [] AttemptEnds(o) = "null" ->
                    [fetch EXCEPT !.pc = "returned", !.seen = seen,
                                  !.gets_since_wait = gets,
                                  !.result = [kind |-> "null", attempt |-> a]]
               [] OTHER ->
                    [fetch EXCEPT
                       !.seen = seen,
                       !.gets_since_wait = gets,
                       !.sleeps = IF a < fetch.retries - 1
                                  THEN Append(@, Backoff(o, a)) ELSE @,
                       !.attempt = a + 1,
                       !.pc = IF a + 1 < fetch.retries THEN "running" ELSE "returned",
                       !.result = IF a + 1 < fetch.retries THEN NoResult
                                  ELSE [kind |-> "null", attempt |-> a]]
    /\ ret' = NoCall
    /\ UNCHANGED <<tasks, filters, users, vacancies, task_jobs, jobs, instances,
                   runs, outbox, handed, limiter, callers, now, requests, parse, restVars>>

\* -------------------------------------------------------- RateLimiter.wait
\* the values delay can take after the jitter: from 0.8 * min_delay, the
\* least that uniform(min_delay, max_delay) * (1 + 0.2 * [-1, 1)) gives, up
JitteredDelays == {(4 * min_delay) \div 5, min_delay + 1}

Returned(c, p, delay) == [caller |-> c, parser |-> p, time |-> now, delay |-> delay]

\* (bug variant: wait() does not take the lock)
LockFree_unguarded(p) == TRUE

\* async with self._lock: the caller gets in when no one holds the lock
LockFree(p) == limiter[p].locked_by = 0

\* the body of wait() for caller c, who has the lock of the limiter of
\* parser p: up to await asyncio.sleep, or to the return when there is no
\* sleep
InLock(c, p, delay) ==
    LET last == limiter[p].last_request_time
        elapsed == now - last.at
    IN  IF last.set /\ elapsed < delay
        THEN /\ callers' = [callers EXCEPT ![c] =
                   [pc |-> "sleeping", parser |-> p, delay |-> delay,
                    wake |-> now + (delay - elapsed), waits |-> @.waits + 1,
                    queued |-> @.pc = "queued"]]
             /\ limiter' = [limiter EXCEPT ![p].locked_by = c]
             /\ UNCHANGED requests
        ELSE /\ callers' = [callers EXCEPT ![c] =
                   [pc |-> "out", parser |-> p, delay |-> 0, wake |-> 0,
                    waits |-> @.waits + 1, queued |-> @.pc = "queued"]]
             /\ limiter' = [limiter EXCEPT ![p].last_request_time = Some(now)]
             /\ requests' = Append(requests,
                                   Returned(c, p, IF last.set THEN delay ELSE 0))

\* caller c calls wait() on the limiter of parser p and gets the lock
limiter_wait(c, p, delay) ==
    /\ callers[c].pc = "out"
    /\ callers[c].waits < MaxWaits
    /\ callers[c].parser \in {0, p}
    /\ LockFree(p)
    /\ InLock(c, p, delay)
    /\ ret' = NoCall
    /\ UNCHANGED <<tasks, filters, users, vacancies, task_jobs, jobs, instances,
                   runs, outbox, handed, fetch, now, parse, throttler, restVars>>

\* caller c calls wait() on the limiter of parser p while another caller
\* holds the lock: it queues on the lock
limiter_queue(c, p) ==
    /\ callers[c].pc = "out"
    /\ callers[c].waits < MaxWaits
    /\ callers[c].parser \in {0, p}
    /\ ~LockFree(p)
    /\ callers' = [callers EXCEPT ![c].pc = "queued", ![c].parser = p]
    /\ ret' = NoCall
    /\ UNCHANGED <<tasks, filters, users, vacancies, task_jobs, jobs, instances,
                   runs, outbox, handed, fetch, limiter, now, requests, parse,
                   throttler, restVars>>

\* a queued caller gets the lock
limiter_acquire(c, delay) ==
    /\ callers[c].pc = "queued"
    /\ LockFree(callers[c].parser)
    /\ InLock(c, callers[c].parser, delay)
    /\ ret' = NoCall
    /\ UNCHANGED <<tasks, filters, users, vacancies, task_jobs, jobs, instances,
                   runs, outbox, handed, fetch, now, parse, throttler, restVars>>

\* (bug variant: leaving the `async with` keeps the lock)
lock_release_kept(holder, c) == holder

\* leaving `async with self._lock`
lock_release(holder, c) == IF holder = c THEN 0 ELSE holder

\* asyncio.sleep(wait_time) is over: the timestamp is written, the lock
\* released and wait() returns
limiter_wake(c) ==
    /\ callers[c].pc = "sleeping"
    /\ now >= callers[c].wake
    /\ LET p == callers[c].parser
       IN  /\ limiter' = [limiter EXCEPT
                 ![p].last_request_time = Some(now),
                 ![p].locked_by = lock_release(@, c)]
           /\ requests' = Append(requests, Returned(c, p, callers[c].delay))
    /\ callers' = [callers EXCEPT ![c].pc = "out", ![c].delay = 0, ![c].wake = 0]
    /\ ret' = NoCall
    /\ UNCHANGED <<tasks, filters, users, vacancies, task_jobs, jobs, instances,
                   runs, outbox, handed, fetch, now, parse, throttler, restVars>>

\* time passes; the bound on the clock does not hold back a sleep that
\* has begun
tick ==
    /\ \/ now < MaxTime
       \/ \E c \in Callers : callers[c].pc = "sleeping" /\ now < callers[c].wake
    /\ now' = now + 1
    /\ ret' = NoCall
    /\ UNCHANGED <<tasks, filters, users, vacancies, task_jobs, jobs, instances,
                   runs, outbox, handed, fetch, limiter, callers, requests, parse,
                   throttler, restVars>>

\* -------------------------------------------------- GszParser.parse_vacancies
\* a listing item (div.job-block) is one of: complete and matching the
\* filters ("ok"); without h4.job-title; with a blank h4.job-title; without
\* li.org; with a link that is not http(s); with a title that is no link;
\* without span.address; with the address of another city; of another
\* company; with a link to a page that is not a vacancy
ItemKinds ==
    {"ok", "no_title", "blank_title", "no_company", "bad_link", "no_link",
     "no_address", "elsewhere", "other_company", "plain_link"}

\* what _fetch_page and find_all give for a page: no html, or the items
FailedPage == [html |-> FALSE, items |-> << >>]
Page(items) == [html |-> TRUE, items |-> items]
PageContents ==
    {FailedPage}
    \cup {Page(items) : items \in
            {<< >>, <<"ok">>, <<"ok", "ok">>,
             <<"no_title", "blank_title", "no_company">>,
             <<"bad_link", "no_link">>, <<"elsewhere", "ok">>,
             <<"other_company">>, <<"no_address">>, <<"ok", "no_address">>}}

\* an element's text, a link target or a number that is there or not
NoValue == [set |-> FALSE, value |-> ""]
Value(v) == [set |-> TRUE, value |-> v]
NoHref == [set |-> FALSE, scheme |-> "", path |-> ""]
Href(scheme, path) == [set |-> TRUE, scheme |-> scheme, path |-> path]
NoCount == [set |-> FALSE, value |-> 0]

\* what the find() calls of _parse_vacancy_item get from an item: the
\* text of h4.job-title, the href of its link (relative links have no
\* scheme), the text of li.org and of span.address, the number after
\* the rate label
Item(kind) ==
    [title   |-> CASE kind = "no_title" -> NoValue
                   [] kind = "blank_title" -> Value(" ")
                   [] OTHER -> Value("nurse"),
     href    |-> CASE kind \in {"no_title", "no_link"} -> NoHref
                   [] kind = "bad_link" -> Href("mailto", "hr@clinic")
                   [] kind = "plain_link" -> Href("", "/directory/employer/3/")
                   [] OTHER -> Href("", "/directory/vacancy/7/"),
     org     |-> CASE kind = "no_company" -> NoValue
                   [] kind = "other_company" -> Value("depot")
                   [] OTHER -> Value("clinic"),
     address |-> CASE kind = "no_address" -> NoValue
                   [] kind = "elsewhere" -> Value("brest")
                   [] OTHER -> Value("minsk"),
     rate    |-> IF kind = "ok" THEN [set |-> TRUE, value |-> 2] ELSE NoCount]

\* BaseParser.normalize_text: None for no text, the text stripped and
\* with single spaces otherwise (blank text becomes the empty string)
normalize_text(text) ==
    IF ~text.set \/ text.value = "" THEN NoValue
    ELSE Value(IF text.value = " " THEN "" ELSE text.value)

\* urljoin(base_url, href): a relative href gets the scheme of base_url
urljoin(href) ==
    IF href.scheme = "" THEN Href("https", href.path) ELSE href

\* (bug variant: a url without the vacancy segment is its own id)
external_id_of_path(url) ==
    IF url.set THEN url.path ELSE "unknown"

\* re.search(r"/vacancy/(\d+)/", url), "unknown" without a match
external_id_of(url) ==
    IF url.set /\ url.path = "/directory/vacancy/7/" THEN "7" ELSE "unknown"

\* `not position`: None or the empty string
Falsy(text) == ~text.set \/ text.value = ""

\* the vacancy_data dict built from an item
vacancy_data(kind) ==
    LET it == Item(kind)
        url == IF it.title.set /\ it.href.set THEN urljoin(it.href) ELSE NoHref
    IN  [external_id |-> external_id_of(url),
         source |-> source_name,
         company_name |-> normalize_text(it.org),
         company_address |-> normalize_text(it.address),
         position |-> normalize_text(it.title),
         vacancies_count |-> it.rate,
         url |-> url]

\* VacancySchema.validate_required_fields on a required string
validate_required_fields(v) == v # "" /\ v # " "

\* (bug variant: any url is accepted)
validate_url_any(url) == TRUE

\* VacancySchema.validate_url
validate_url(url) == url.set => url.scheme \in {"http", "https"}

\* VacancySchema(**vacancy_data) does not raise
VacancySchema(data) ==
    /\ validate_required_fields(data.external_id)
    /\ validate_required_fields(data.source)
    /\ data.company_name.set /\ validate_required_fields(data.company_name.value)
    /\ data.position.set /\ validate_required_fields(data.position.value)
    /\ data.vacancies_count.set => data.vacancies_count.value >= 0
    /\ validate_url(data.url)

\* the items _parse_vacancy_item returns a record for: position and
\* company_name are there and VacancySchema accepts the data
Parsed ==
    {kind \in ItemKinds :
        LET data == vacancy_data(kind)
        IN  /\ ~(Falsy(data.position) \/ Falsy(data.company_name))
            /\ VacancySchema(data)}

\* _parse_vacancy_item: None (FALSE) or the record
parse_vacancy_item(kind) == kind \in Parsed

\* vacancy.get("company_address", "").lower() raises AttributeError when
\* the record's company_address is None
AddressRaises(kind) == kind = "no_address"
CityMatches(kind) == kind # "elsewhere"
CompanyMatches(kind) == kind # "other_company"

\* (bug variant: the loop over the items does not look at the limit)
LimitReached_ignored(limit, found) == FALSE

\* `if limit and len(vacancies) >= limit`
LimitReached(limit, found) == limit # 0 /\ Len(found) >= limit

\* the loop over the items of page p from item i on: the accumulated list
\* and whether an exception left the loop
RECURSIVE ItemLoop(_, _, _, _)
ItemLoop(items, i, p, acc) ==
    IF i > Len(items) \/ LimitReached(parse.limit, acc)
    THEN [vacancies |-> acc, raised |-> FALSE]
    ELSE LET kind == items[i]
         IN  IF ~parse_vacancy_item(kind)
             THEN ItemLoop(items, i + 1, p, acc)
             ELSE IF parse.city /\ AddressRaises(kind)
             THEN [vacancies |-> acc, raised |-> TRUE]
             ELSE IF parse.city /\ ~CityMatches(kind)
             THEN ItemLoop(items, i + 1, p, acc)
             ELSE IF parse.company /\ ~CompanyMatches(kind)
             THEN ItemLoop(items, i + 1, p, acc)
             ELSE ItemLoop(items, i + 1, p, Append(acc, <<p, i>>))

\* (bug variant: the discovered page count sets the ceiling in both modes)
PagesToTry_discovered(parse_all_pages, total_pages) ==
    IF total_pages > 10 THEN total_pages ELSE 10

\* max_pages_to_try for the mode and the page count that was discovered
PagesToTry(parse_all_pages, total_pages) ==
    IF parse_all_pages THEN 1000
    ELSE IF total_pages > 0
         THEN (IF total_pages > 10 THEN total_pages ELSE 10)
         ELSE 10

\* (bug variant: the run stops at the third page in a row)
StopsOnCount_three(n) == n >= 3

\* `if consecutive_empty_pages >= 2: break`
StopsOnCount(n) == n >= 2

\* (bug variant: the loop does not move on to the next page)
AfterPage_stays(q, acc) ==
    IF q.page = q.max_pages_to_try \/ LimitReached(q.limit, acc)
    THEN [q EXCEPT !.pc = "returned", !.vacancies = acc]
    ELSE [q EXCEPT !.vacancies = acc]

\* where the loop is after page p is done with the list acc: the for loop
\* is over, or the check at the top of the next pass breaks, or the next
\* page is fetched
AfterPage(q, acc) ==
    IF q.page = q.max_pages_to_try \/ LimitReached(q.limit, acc)
    THEN [q EXCEPT !.pc = "returned", !.vacancies = acc]
    ELSE [q EXCEPT !.page = @ + 1, !.vacancies = acc]

\* parse_vacancies is called: get_total_pages, which fetches page 1 of
\* the search, the first call of the progress callback (which may
\* raise), and the set-up of the loop
parse_vacancies_call(limit, city, company, callback, all_pages, total_pages, raises) ==
    /\ parse.pc = "idle"
    /\ raises => callback
    /\ parse' = [NoParse EXCEPT
                   !.pc = IF raises THEN "raised" ELSE "paging",
                   !.cause = IF raises THEN "callback" ELSE "none",
                   !.limit = limit, !.city = city, !.company = company,
                   !.progress_callback = callback,
                   !.max_pages_to_try = PagesToTry(all_pages, total_pages),
                   !.page = 1,
                   !.pages = <<1>>,
                   !.reported = IF callback THEN Report(0, total_pages, 0)
                                ELSE NoReport]
    /\ ret' = NoCall
    /\ UNCHANGED <<tasks, filters, users, vacancies, task_jobs, jobs, instances,
                   runs, outbox, handed, fetch, limiter, callers, now, requests,
                   throttler, restVars>>

\* `if page < max_pages_to_try: await asyncio.sleep(delay + jitter)`
SleepsAfter(page, max_pages_to_try) == page < max_pages_to_try

\* one pass of the loop over the pages: the page is fetched and gives
\* content; raises: whether the progress callback raises when called
parse_page(content, raises) ==
    /\ parse.pc = "paging"
    /\ parse.page <= MaxPages
    /\ raises => parse.progress_callback
    /\ LET q == [parse EXCEPT !.fetched = @ + 1,
                              !.pages = Append(@, parse.page),
                              !.reported = NoReport,
                              !.delayed = FALSE,
                              !.last_page = IF ~content.html THEN "failed"
                                            ELSE IF content.items = << >> THEN "empty"
                                            ELSE "items"]
           count == IF content.html /\ content.items # << >>
                    THEN 0 ELSE parse.consecutive_empty_pages + 1
           counted == [q EXCEPT !.consecutive_empty_pages = count]
           loop == ItemLoop(content.items, 1, parse.page, parse.vacancies)
           report == IF parse.progress_callback
                     THEN Report(parse.page, parse.max_pages_to_try, Len(loop.vacancies))
                     ELSE NoReport
           done == [counted EXCEPT
                      !.reported = report,
                      !.delayed = SleepsAfter(parse.page, parse.max_pages_to_try)]
       IN  /\ Len(loop.vacancies) <= MaxKept
           /\ parse' =
                 IF (~content.html \/ content.items = << >>) /\ StopsOnCount(count)
                 THEN [counted EXCEPT !.pc = "returned"]
                 ELSE IF ~content.html
                 THEN AfterPage(counted, parse.vacancies)
                 ELSE IF loop.raised
                 THEN [counted EXCEPT !.pc = "raised", !.cause = "item",
                                      !.vacancies = loop.vacancies]
                 ELSE IF raises
                 THEN [counted EXCEPT !.pc = "raised", !.cause = "callback",
                                      !.reported = report,
                                      !.vacancies = loop.vacancies]
                 ELSE AfterPage(done, loop.vacancies)
    /\ ret' = NoCall
    /\ UNCHANGED <<tasks, filters, users, vacancies, task_jobs, jobs, instances,
                   runs, outbox, handed, fetch, limiter, callers, now, requests,
                   throttler, restVars>>

\* ------------------------------------- parse_vacancies: detail enrichment
\* (bug variant: the counter counts every failure of the run)
DetailErrors_total(errors, detail_data) ==
    IF detail_data THEN errors ELSE errors + 1

\* `if detail_data: ... detail_fetch_errors = 0 / else: detail_fetch_errors += 1`
DetailErrors(errors, detail_data) ==
    IF detail_data THEN 0 ELSE errors + 1

\* `if fetch_details and vacancy.get("url") and detail_fetch_errors < max_detail_errors`
FetchesDetail(fetch_details, has_url, errors) ==
    fetch_details /\ has_url /\ errors < max_detail_errors

\* parse_vacancies(fetch_details=...) is called: the locals of the run
enrich_call(fetch_details) ==
    /\ detail.pc = "idle"
    /\ detail' = [NoDetail EXCEPT !.pc = "running", !.fetch_details = fetch_details]
    /\ ret' = NoCall
    /\ UNCHANGED <<tasks, filters, users, vacancies, task_jobs, jobs, instances,
                   runs, outbox, handed, parserVars, pagination, scheduler>>

\* an item that passed the filters reaches the enrichment: has_url is
\* vacancy.get("url"), detail_data whether parse_vacancy_detail returns a
\* dict (it returns None when the page cannot be fetched or parsed); the
\* item is appended whatever happened
enrich_item(has_url, detail_data) ==
    /\ detail.pc = "running"
    /\ detail.accepted < MaxAccepted
    /\ LET fetches == FetchesDetail(detail.fetch_details, has_url,
                                    detail.detail_fetch_errors)
           outcome == IF ~fetches THEN "skipped"
                      ELSE IF detail_data THEN "fetched" ELSE "failed"
       IN  detail' =
             [detail EXCEPT
                !.detail_fetch_errors =
                    IF fetches THEN DetailErrors(@, detail_data) ELSE @,
                !.vacancies = Append(@, outcome),
                !.accepted = @ + 1]
    /\ ret' = NoCall
    /\ UNCHANGED <<tasks, filters, users, vacancies, task_jobs, jobs, instances,
                   runs, outbox, handed, parserVars, pagination, scheduler>>

\* the loop over the pages is over: `return vacancies`
enrich_return ==
    /\ detail.pc = "running"
    /\ detail' = [detail EXCEPT !.pc = "returned"]
    /\ ret' = NoCall
    /\ UNCHANGED <<tasks, filters, users, vacancies, task_jobs, jobs, instances,
                   runs, outbox, handed, parserVars, pagination, scheduler>>

\* ------------------------------------------------ GszParser.get_total_pages
\* a link of the pagination control: its text is a number ("number"), a
\* digit character int() does not take, as in "2" written superscript
\* ("digit"), or no digits ("word"); its href has page=N or has not (0)
Link(text, number, href_page) ==
    [text |-> text, number |-> number, href_page |-> href_page]
Links ==
    {Link("word", 0, 0), Link("word", 0, 2), Link("word", 0, 12),
     Link("number", 1, 0), Link("number", 3, 0), Link("number", 3, 12),
     Link("digit", 0, 12)}

FirstPages ==
    {FirstPage(FALSE, FALSE, << >>, 0)}
    \cup {FirstPage(TRUE, FALSE, << >>, n) : n \in {0, 1, page_size - 1, page_size, page_size + 1}}
    \cup {FirstPage(TRUE, TRUE, links, n) :
             links \in SeqsUpTo(Links, MaxLinks), n \in {0, page_size - 1, page_size}}

Max(a, b) == IF a > b THEN a ELSE b

\* the body of `for link in page_links` for one link: text.isdigit() and
\* int(text), then the page= of the href; the ValueError of int() skips
\* the rest of the body
LinkPage(link, max_page) ==
    CASE link.text = "digit" -> max_page
      [] link.text = "number" ->
            Max(Max(max_page, link.number),
                IF link.href_page > 0 THEN link.href_page ELSE 0)
      [] OTHER ->
            IF link.href_page > 0 THEN Max(max_page, link.href_page) ELSE max_page

\* max_page after the links from i on
RECURSIVE MaxPage(_, _, _)
MaxPage(links, i, max_page) ==
    IF i > Len(links) THEN max_page
    ELSE MaxPage(links, i + 1, LinkPage(links[i], max_page))

\* what get_total_pages returns for the first page
TotalPages(page) ==
    IF ~page.html THEN 1
    ELSE IF page.control /\ MaxPage(page.links, 1, 1) > 1
    THEN MaxPage(page.links, 1, 1)
    ELSE IF page.job_blocks >= page_size THEN fallback_pages ELSE 1

\* get_total_pages is called and the first page of the search is page
get_total_pages(page) ==
    /\ pagination' = [pc |-> "returned", page |-> page, result |-> TotalPages(page)]
    /\ ret' = NoCall
    /\ UNCHANGED <<tasks, filters, users, vacancies, task_jobs, jobs, instances,
                   runs, outbox, handed, parserVars, detail, scheduler>>

\* ------------------------------------------------------- specifications
RunSteps(results) ==
    \/ \E r \in 1..MaxRuns : check_new_vacancies_begin(r)
    \/ \E r \in 1..MaxRuns, vs \in results, g \in BOOLEAN :
           \E failAt \in 0..Len(vs) : check_new_vacancies_scraped(r, vs, failAt, g)
    \/ \E r \in 1..MaxRuns : check_new_vacancies_scrape_error(r)

\* the scheduler and everything that controls it; the scrapes find nothing
Next ==
    \/ \E t \in Tasks : start_monitoring_task(t)
    \/ \E t \in Tasks : stop_monitoring_task(t)
    \/ \E t \in Tasks : interval_fire(t)
    \/ \E t \in Tasks : monitor_run_now_callback(t)
    \/ \E t \in Tasks : monitor_stop_task_callback(t)
    \/ \E f \in Filters : filter_toggle_callback(f)
    \/ \E f \in Filters : filter_delete_callback(f)
    \/ restore_tasks
    \/ RunSteps({<<>>})

Spec == Init /\ [][Next]_vars

\* check runs and interactive searches ingesting into the same store
NextIngest ==
    \/ \E t \in Tasks : monitor_run_now_callback(t)
    \/ RunSteps(ShortScrapes)
    \/ \E r \in 1..MaxRuns, d \in BOOLEAN : send_message(r, d)
    \/ \E vs \in ShortScrapes : \E failAt \in 0..Len(vs) : search_save(vs, failAt)

SpecIngest == Init /\ [][NextIngest]_vars

\* one check run at a time over batches of every size up to MaxNew
NextNotify ==
    \/ /\ \A r \in DOMAIN runs : runs[r].pc = "done"
       /\ monitor_run_now_callback(1)
    \/ filter_delete_callback(1)
    \/ RunSteps(LongScrapes)
    \/ \E r \in 1..MaxRuns, d \in BOOLEAN : send_message(r, d)

SpecNotify == Init /\ [][NextNotify]_vars
\* calls of _fetch_page over every sequence of attempt outcomes
NextFetch ==
    \/ \E retries \in 0..MaxRetries : fetch_page_call(retries)
    \/ fetch_page_cooldown
    \/ fetch_page_wait
    \/ \E o \in Outcomes : fetch_page_attempt(o)

SpecFetch == Init /\ [][NextFetch]_vars
\* coroutines calling wait() on the limiters of the parsers while time passes
NextLimiter ==
    \/ \E c \in Callers, p \in Parsers, delay \in JitteredDelays : limiter_wait(c, p, delay)
    \/ \E c \in Callers : limiter_wake(c)
    \/ tick

SpecLimiter == Init /\ [][NextLimiter]_vars
\* the callers on the limiter of one parser, those that find the lock
\* taken included, and the scheduling of the event loop: time passes, a
\* sleep that is over resumes, and the lock goes to each of its waiters
\* in turn
NextWait ==
    \/ \E c \in Callers, delay \in JitteredDelays : limiter_wait(c, 1, delay)
    \/ \E c \in Callers : limiter_queue(c, 1)
    \/ \E c \in Callers, delay \in JitteredDelays : limiter_acquire(c, delay)
    \/ \E c \in Callers : limiter_wake(c)
    \/ tick

SpecWait ==
    /\ Init /\ [][NextWait]_vars
    /\ WF_vars(tick)
    /\ \A c \in Callers : WF_vars(limiter_wake(c))
    /\ \A c \in Callers : SF_vars(\E delay \in JitteredDelays : limiter_acquire(c, delay))

\* a RequestThrottler with small limits, called while time passes
NextThrottle ==
    \/ \E limits \in Limits : new_throttler(limits)
    \/ can_make_request_call
    \/ record_request_call
    \/ \E t \in Times : throttler_advance(t)

SpecThrottle == Init /\ [][NextThrottle]_vars
\* the arguments parse_vacancies is called with: every combination of
\* limit, city filter and mode, with the company filter or a progress
\* callback or neither, and a discovered page count of 1; a count above
\* the default of 10 pages in plain search mode only
ParseCalls ==
    {c \in [limit : {0, 1}, city : BOOLEAN, company : BOOLEAN, callback : BOOLEAN,
            parse_all_pages : BOOLEAN, total_pages : {1, 11}] :
        /\ c.company => ~c.callback
        /\ c.total_pages = 11 => ~c.parse_all_pages /\ ~c.company /\ ~c.callback}

\* calls of parse_vacancies over every sequence of page contents
NextParse ==
    \/ \E c \in ParseCalls, raises \in BOOLEAN :
          parse_vacancies_call(c.limit, c.city, c.company, c.callback,
                               c.parse_all_pages, c.total_pages, raises)
    \/ \E content \in PageContents, raises \in BOOLEAN : parse_page(content, raises)

\* the store plays no part here: the user row is there and active
InitParse == Init /\ \A u \in Users : users[u] = Row(TRUE, TRUE)

SpecParse == InitParse /\ [][NextParse]_vars

\* the same when the awaits of a pass of the loop (the fetch, the
\* callback, the sleep) complete, so that a run that can make its next
\* pass makes it
SpecParseFair ==
    /\ SpecParse
    /\ WF_vars(\E content \in PageContents, raises \in BOOLEAN : parse_page(content, raises))
\* calls of parse_vacancies with and without detail enrichment, over
\* every sequence of accepted items and detail pages
NextEnrich ==
    \/ \E fetch_details \in BOOLEAN : enrich_call(fetch_details)
    \/ \E has_url \in BOOLEAN, detail_data \in BOOLEAN : enrich_item(has_url, detail_data)
    \/ enrich_return

SpecEnrich == Init /\ [][NextEnrich]_vars
\* calls of get_total_pages over first pages of every shape
NextPagination == \E page \in FirstPages : get_total_pages(page)

SpecPagination == Init /\ [][NextPagination]_vars
\* the service until the process ends: everything of Next while the
\* scheduler runs, then shutdown; a check run that is in flight at that
\* moment may still take its steps
NextShutdown ==
    \/ scheduler = "running" /\ \E t \in Tasks : start_monitoring_task(t)
    \/ scheduler = "running" /\ \E t \in Tasks : stop_monitoring_task(t)
    \/ scheduler = "running" /\ \E t \in Tasks : interval_fire(t)
    \/ scheduler = "running" /\ \E t \in Tasks : monitor_run_now_callback(t)
    \/ scheduler = "running" /\ \E t \in Tasks : monitor_stop_task_callback(t)
    \/ scheduler = "running" /\ \E f \in Filters : filter_toggle_callback(f)
    \/ scheduler = "running" /\ \E f \in Filters : filter_delete_callback(f)
    \/ scheduler = "running" /\ restore_tasks
    \/ RunSteps({<<>>})
    \/ shutdown

SpecShutdown == Init /\ [][NextShutdown]_vars
\* tasks started and stopped while their check runs scrape records,
\* store them and notify
NextStop ==
    \/ \E t \in Tasks : start_monitoring_task(t)
    \/ \E t \in Tasks : stop_monitoring_task(t)
    \/ \E t \in Tasks : monitor_stop_task_callback(t)
    \/ \E t \in Tasks : interval_fire(t)
    \/ RunSteps(ShortScrapes)
    \/ \E r \in 1..MaxRuns, d \in BOOLEAN : send_message(r, d)

SpecStop == Init /\ [][NextStop]_vars
\* the key under which the store files a scraped record: the store of
\* this model is keyed by numbers, one for each external_id
ExternalIdNumber(external_id) ==
    CASE external_id = "unknown" -> 1
      [] external_id = "7" -> 2
      [] OTHER -> 3
StoreRecord(kind) == VacancyData(ExternalIdNumber(vacancy_data(kind).external_id))

\* the listings a search page may show: with a vacancy link, with a title
\* that is no link, with a link to another kind of page; and the results
\* parse_vacancies returns for pages of them
ListingKinds == {"ok", "no_link", "plain_link"} \cap Parsed
ListingScrapes ==
    {[i \in DOMAIN kinds |-> StoreRecord(kinds[i])] :
        kinds \in SeqsUpTo(ListingKinds, MaxScrapeLen) \ {<< >>}}

\* check runs, one after the other, over scrapes of such listings
NextUnknown ==
    \/ /\ \A r \in DOMAIN runs : runs[r].pc = "done"
       /\ monitor_run_now_callback(1)
    \/ RunSteps(ListingScrapes)
    \/ \E r \in 1..MaxRuns, d \in BOOLEAN : send_message(r, d)

SpecUnknown == Init /\ [][NextUnknown]_vars
\* calls of _fetch_page by a parser whose throttler has small limits,
\* while time passes.  The sleep that follows a response is over before
\* the next attempt is made: the clock is then at least the sleep past
\* the timestamp recorded for that response
FetchTimes == {1, 30, 60, 61}
FetchOutcomes ==
    {o \in Outcomes :
        \/ o.kind = "timeout"
        \/ o.kind = "status" /\ o.status \in {200, 404, 403, 500}
        \/ o.kind = "status" /\ o.status = 429 /\ o.retry_after = NoHeader}
SleepIsOver ==
    IF fetch.pc # "running" \/ fetch.attempt = 0 THEN TRUE
    ELSE IF fetch.seen[Len(fetch.seen)].kind # "status" THEN TRUE
    ELSE throttler.clock >=
            throttler.request_times[Len(throttler.request_times)]
              + fetch.sleeps[Len(fetch.sleeps)].seconds
NextThrottledFetch ==
    \/ \E limits \in Limits : new_throttler(limits)
    \/ /\ Len(throttler.request_times) < MaxRecorded
       /\ \E retries \in 0..MaxRetries : fetch_page_call(retries)
    \/ fetch_page_cooldown
    \/ fetch_page_wait
    \/ SleepIsOver /\ \E o \in FetchOutcomes : fetch_page_attempt(o)
    \/ \E t \in FetchTimes : throttler_advance(t)

SpecThrottledFetch == Init /\ [][NextThrottledFetch]_vars
\* ================================================================= claims
Executing(r) == runs[r].pc \in {"scraping", "sending"}
AllEnded == \A r \in DOMAIN runs : runs[r].pc = "done"
MessagesOf(box, r) == SelectSeq(box, LAMBDA m : m.run = r)

\* C1: the store never holds two rows with the same (external_id, source),
\* whatever the interleaving of check runs and interactive search saves.
C1_NoDuplicateKey == \A v \in AllVacancyData : vacancies[v] <= 1

\* both keys are stored, one inserted by a search save and one by a check
\* run, after every run of the behaviour has ended
C1_Witness ==
    /\ Len(runs) = MaxRuns /\ AllEnded
    /\ \E v, w \in AllVacancyData :
          /\ vacancies[v] = 1 /\ handed[v] = 1
          /\ vacancies[w] = 1 /\ handed[w] = 0

\* C2: a record whose key is in the store is never inserted again and never
\* put into a notification batch; a check run whose scraped records are all
\* stored leaves the store alone and delivers nothing; and a key is handed
\* to the notification step by at most one run.
C2_KnownRecordsAreSkipped ==
    /\ [][\A v \in AllVacancyData :
            vacancies[v] > 0 => vacancies'[v] = vacancies[v] /\ handed'[v] = handed[v]]_vars
    /\ [][\A r \in DOMAIN runs, vs \in ShortScrapes, g \in BOOLEAN :
            /\ runs[r].pc = "scraping"
            /\ \A i \in DOMAIN vs : vacancies[vs[i]] > 0
            /\ \E failAt \in 0..Len(vs) : check_new_vacancies_scraped(r, vs, failAt, g)
            => /\ vacancies' = vacancies
               /\ handed' = handed
               /\ outbox' = outbox
               /\ runs'[r].pc = "done"]_vars
    /\ [](\A v \in AllVacancyData : handed[v] <= 1)

\* two runs have each notified about a record of their own and have ended
C2_Witness ==
    /\ Len(runs) = MaxRuns /\ AllEnded
    /\ \A v \in {VacancyData(1), VacancyData(2)} : vacancies[v] = 1 /\ handed[v] = 1
    /\ \E i, j \in DOMAIN outbox : outbox[i].run # outbox[j].run

\* C3: at most one check run of a task is executing at any time.
C3_OneRunPerTask ==
    \A t \in Tasks :
        Cardinality({r \in DOMAIN runs : Executing(r) /\ runs[r].task = t}) <= 1

\* C4: start_monitoring_task on a task that has a timer, is missing from
\* the store or is not active returns failure and changes nothing.
C4_RejectedStartIsNoOp ==
    [][\A t \in Tasks :
         /\ ret'.op = "start" /\ ret'.task = t
         /\ (t \in DOMAIN task_jobs \/ ~tasks[t].exists \/ ~tasks[t].is_active)
         => /\ ~ret'.ok
            /\ UNCHANGED <<tasks, filters, users, vacancies, task_jobs, jobs,
                           instances, runs, outbox, handed>>]_vars

\* a start was rejected for a task whose timer is registered
C4_Witness ==
    \E t \in Tasks : ret = Called("start", t, FALSE) /\ t \in DOMAIN task_jobs
\* C5: a successful start_monitoring_task registers exactly one timer keyed
\* by the task id, with the task's interval_hours as period, and launches
\* exactly one check run of the task at once, not at the first interval.
C5_StartRegistersAndRunsOnce ==
    [][\A t \in Tasks :
         ret'.op = "start" /\ ret'.task = t /\ ret'.ok
         => /\ t \notin DOMAIN task_jobs
            /\ DOMAIN task_jobs' = DOMAIN task_jobs \cup {t}
            /\ \A u \in DOMAIN task_jobs : task_jobs'[u] = task_jobs[u]
            /\ task_jobs'[t] \notin DOMAIN jobs
            /\ DOMAIN jobs' = DOMAIN jobs \cup {task_jobs'[t]}
            /\ \A j \in DOMAIN jobs : jobs'[j] = jobs[j]
            /\ jobs'[task_jobs'[t]] = [args |-> t, hours |-> interval_hours(t)]
            /\ Len(runs') = Len(runs) + 1
            /\ \A r \in DOMAIN runs : runs'[r] = runs[r]
            /\ runs'[Len(runs')].task = t
            /\ runs'[Len(runs')].pc = "created"
            /\ UNCHANGED instances]_vars

\* a start has just succeeded: the timer is registered and the run it
\* launched is waiting on the loop
C5_Witness ==
    \E t \in Tasks :
        /\ ret = Called("start", t, TRUE)
        /\ t \in DOMAIN task_jobs
        /\ runs[Len(runs)] = NewRun(t, "initial")

\* C6: stop_monitoring_task on a task with a timer removes the job and the
\* map entry and returns success; without a timer it returns failure and
\* changes nothing.  A second stop is such a no-op, and a start right after
\* a successful stop is not rejected (it succeeds for a task that is still
\* present and active in the store).
C6_StopRemovesOrIsNoOp ==
    [][\A t \in Tasks :
         /\ ret'.op = "stop" /\ ret'.task = t
            => IF t \in DOMAIN task_jobs
               THEN /\ ret'.ok
                    /\ DOMAIN task_jobs' = DOMAIN task_jobs \ {t}
                    /\ DOMAIN jobs' = DOMAIN jobs \ {task_jobs[t]}
                    /\ \A u \in DOMAIN task_jobs' : task_jobs'[u] = task_jobs[u]
                    /\ \A j \in DOMAIN jobs' : jobs'[j] = jobs[j]
                    /\ UNCHANGED <<tasks, filters, users, vacancies, instances, runs,
                                   outbox, handed>>
               ELSE /\ ~ret'.ok
                    /\ UNCHANGED <<tasks, filters, users, vacancies, task_jobs, jobs,
                                   instances, runs, outbox, handed>>
         /\ ret.op = "stop" /\ ret.task = t /\ ret'.op = "stop" /\ ret'.task = t
            => /\ ~ret'.ok
               /\ UNCHANGED <<tasks, filters, users, vacancies, task_jobs, jobs,
                              instances, runs, outbox, handed>>
         /\ ret = Called("stop", t, TRUE) /\ ret'.op = "start" /\ ret'.task = t
            => ret'.ok = (tasks[t].exists /\ tasks[t].is_active)]_vars

\* a task was started, stopped and started again: both of its immediate
\* runs are still waiting and the second start has just succeeded
C6_Witness ==
    \E t \in Tasks :
        /\ ret = Called("start", t, TRUE)
        /\ Cardinality({r \in DOMAIN runs : runs[r] = NewRun(t, "initial")}) = 2

\* C7: a check run that finds its task missing or inactive, its filter
\* missing or inactive, or its user missing removes the task's timer and
\* ends: it never scrapes, inserts nothing, leaves last_check alone and
\* delivers nothing.
C7_StaleRunStopsTimerAndExits ==
    [][\A r \in DOMAIN runs :
         LET t == runs[r].task IN
         /\ runs[r].pc = "created"
         /\ runs'[r].pc # "created"
         /\ \/ ~tasks[t].exists \/ ~tasks[t].is_active
            \/ ~filters[filter_id(t)].exists \/ ~filters[filter_id(t)].is_active
            \/ ~users[user_id(t)].exists
         => /\ runs'[r].pc = "done"
            /\ t \notin DOMAIN task_jobs'
            /\ job_id(t) \notin DOMAIN jobs'
            /\ \A u \in Tasks \ {t} :
                  /\ (u \in DOMAIN task_jobs') = (u \in DOMAIN task_jobs)
                  /\ (job_id(u) \in DOMAIN jobs') = (job_id(u) \in DOMAIN jobs)
            /\ UNCHANGED <<tasks, vacancies, outbox, handed>>]_vars

\* the timer of a task whose filter was switched off has been removed by
\* the task's own check run, which has ended
C7_Witness ==
    \E t \in Tasks :
        /\ tasks[t].exists /\ tasks[t].is_active
        /\ filters[filter_id(t)].exists /\ ~filters[filter_id(t)].is_active
        /\ t \notin DOMAIN task_jobs
        /\ Len(runs) = 1 /\ AllEnded
        /\ tasks[t].last_check = 0

\* C8: a check run of a task whose user is marked inactive does not get
\* past the checks (it never scrapes or notifies).
C8_InactiveUserStopsRun ==
    \A r \in DOMAIN runs :
        Executing(r) => users[user_id(runs[r].task)].is_active
SentInFull(ms, new) ==
    /\ Len(ms) = Min(Len(new), 5) + (IF Len(new) > 5 THEN 1 ELSE 0)
    /\ \A i \in DOMAIN ms :
          IF i <= 5
          THEN ms[i].message.kind = "detail" /\ ms[i].message.vacancy = new[i]
          ELSE ms[i].message.kind = "summary" /\ ms[i].message.index = Len(new) - 5

\* C10 as stated: the notification step of a run that collected n records
\* sends min(n, 5) detailed messages and then one summary iff n > 5.
C10_StepSendsEveryMessage ==
    [][\A r \in DOMAIN runs :
         runs[r].pc = "sending" /\ runs'[r].pc = "done"
         => SentInFull(MessagesOf(outbox', r), runs[r].new)]_vars

\* C11: right after restore_tasks on a freshly constructed scheduler, the
\* tasks with a registered timer are exactly the tasks marked active in the
\* store, each with exactly one job of its own, and exactly one immediate
\* check run has been launched for each of them and for no other task.
C11_RestoreRegistersActiveTasks ==
    ret.op = "restore"
    => /\ DOMAIN task_jobs = {t \in Tasks : tasks[t].exists /\ tasks[t].is_active}
       /\ \A t \in DOMAIN task_jobs :
             /\ task_jobs[t] = job_id(t)
             /\ job_id(t) \in DOMAIN jobs /\ jobs[job_id(t)].args = t
             /\ Cardinality({r \in DOMAIN runs :
                    runs[r].task = t /\ runs[r].origin = "initial"
                    /\ runs[r].pc = "created"}) = 1
       /\ Cardinality(DOMAIN jobs) = Cardinality(DOMAIN task_jobs)
       /\ Len(runs) = Cardinality(DOMAIN task_jobs)

\* restore_tasks has run over a store with two active tasks
C11_Witness ==
    /\ ret.op = "restore"
    /\ DOMAIN task_jobs = {1, 2}
    /\ Len(runs) = 2

\* the attempts of the call that were answered with the given status
Answered(status) ==
    {i \in DOMAIN fetch.seen :
        fetch.seen[i].kind = "status" /\ fetch.seen[i].status = status}

\* C12: whatever the outcomes of the attempts, _fetch_page makes at most
\* `retries` attempts and none after a 200 or a 404; it returns the body of
\* the first 200 response, None at the first 404, and None when the
\* `retries` attempts brought neither.
C12_FetchStopsAtFirstAnswer ==
    /\ Len(fetch.seen) <= (IF fetch.retries > 0 THEN fetch.retries ELSE 0)
    /\ \A i \in Answered(200) \cup Answered(404) : i = Len(fetch.seen)
    /\ fetch.pc = "running"
          => Len(fetch.seen) < fetch.retries /\ Answered(200) \cup Answered(404) = {}
    /\ fetch.pc = "returned"
          => CASE Answered(200) # {} ->
                    fetch.result = [kind |-> "body", attempt |-> Len(fetch.seen) - 1]
               [] Answered(404) # {} -> fetch.result.kind = "null"
               [] OTHER -> /\ fetch.result.kind = "null"
                           /\ Len(fetch.seen) = (IF fetch.retries > 0
                                                 THEN fetch.retries ELSE 0)

\* the third attempt was answered 200 after a 429 and a 503, and its body
\* was returned
C12_Witness ==
    /\ fetch.pc = "returned"
    /\ Len(fetch.seen) = 3
    /\ fetch.seen[1].status = 429 /\ fetch.seen[2].status = 503
    /\ fetch.result = [kind |-> "body", attempt |-> 2]

\* the sleep the claim gives for a failed attempt a with outcome o
ClaimedSleep(o, a) ==
    CASE o.status = 429 ->
            Sleep(a, IF o.retry_after.form = "absent" THEN 60
                     ELSE o.retry_after.seconds, 0)
      [] o.status = 503 -> Sleep(a, 5 * (a + 1), 3)
      [] o.status = 403 -> Sleep(a, 30 * (a + 1), 0)
      [] OTHER -> Sleep(a, 2 ^ a, 1)

\* C13 as stated: after every failed attempt that is not the last exactly
\* one sleep is taken, chosen by the failure class alone (429: Retry-After
\* or 60; 503: 5*(a+1) plus jitter; 403: 30*(a+1); otherwise 2^a plus
\* jitter), and none is taken after the last attempt.
C13_BackoffByFailureClass ==
    LET failed == {i \in DOMAIN fetch.seen : AttemptEnds(fetch.seen[i]) = "retry"}
        slept == {i \in failed : i - 1 < fetch.retries - 1}
    IN  /\ Len(fetch.sleeps) = Cardinality(slept)
        /\ \A k \in DOMAIN fetch.sleeps :
              /\ fetch.sleeps[k].after + 1 \in slept
              /\ fetch.sleeps[k] = ClaimedSleep(fetch.seen[fetch.sleeps[k].after + 1],
                                                fetch.sleeps[k].after)
        /\ \A k, l \in DOMAIN fetch.sleeps :
              k # l => fetch.sleeps[k].after # fetch.sleeps[l].after

\* the returns of wait() on the limiter of parser p, in order
ReturnsOf(p) == SelectSeq(requests, LAMBDA q : q.parser = p)

\* C14: on one RateLimiter at most one caller at a time is between the read
\* and the write of last_request_time; its returns are ordered in time, two
\* consecutive ones at least the delay drawn for the later call apart, which
\* is at least 0.8 * min_delay; so N calls take at least (N-1)*0.8*min_delay.
C14_WaitSerializesCallers ==
    \A p \in Parsers :
        /\ Cardinality({c \in Callers :
                callers[c].pc = "sleeping" /\ callers[c].parser = p}) <= 1
        /\ \A c \in Callers :
              callers[c].pc = "sleeping" /\ callers[c].parser = p
              => limiter[p].locked_by = c
        /\ \A i \in 2..Len(ReturnsOf(p)) :
              /\ ReturnsOf(p)[i].time - ReturnsOf(p)[i - 1].time >= ReturnsOf(p)[i].delay
              /\ 5 * ReturnsOf(p)[i].delay >= 4 * min_delay
        /\ Len(ReturnsOf(p)) >= 1
              => 5 * (ReturnsOf(p)[Len(ReturnsOf(p))].time - ReturnsOf(p)[1].time)
                   >= (Len(ReturnsOf(p)) - 1) * 4 * min_delay

\* two callers have gone through the same limiter, one after the other, and one of
\* them is asleep in wait() holding the lock
C14_Witness ==
    \E p \in Parsers :
        /\ \A c \in Callers : callers[c].parser = p
        /\ Len(ReturnsOf(p)) = 2
        /\ ReturnsOf(p)[1].caller # ReturnsOf(p)[2].caller
        /\ \E c \in Callers : callers[c].pc = "sleeping"

\* C15: the requests of two concurrent runs (each run calls wait() on the
\* limiter of the parser it constructed) are never less than the least
\* jittered delay, 0.8 * min_delay, apart.
C15_RunsShareOneLimiter ==
    \A i, j \in DOMAIN requests :
        i < j /\ requests[i].parser # requests[j].parser
        => 5 * (requests[j].time - requests[i].time) >= 4 * min_delay

\* the step is a pass of the loop of parse_vacancies that fetched a page
PageStep == parse.pc = "paging" /\ parse'.fetched = parse.fetched + 1

C17_StopConditions ==
    [][PageStep /\ parse'.pc # "raised"
       => (parse'.pc = "returned"
           <=> \/ LimitReached(parse.limit, parse'.vacancies)
               \/ parse.last_page = "empty" /\ parse'.last_page = "empty"
               \/ parse.last_page = "failed" /\ parse'.last_page = "failed"
               \/ parse.page = parse.max_pages_to_try)]_vars

\* whether the filters of the call let an item of this kind through
Accepted(kind) ==
    /\ parse_vacancy_item(kind)
    /\ parse.city => CityMatches(kind)
    /\ parse.company => CompanyMatches(kind)

\* C18: with limit = L >= 1 the accumulated list never holds more than L
\* items.  A pass over a page appends, in order, the items of the page that
\* are parsed and pass the active filters, up to the limit, and nothing
\* else; the run goes on to the next page while fewer than L are found.
C18_LimitCountsAcceptedItems ==
    /\ [](parse.limit >= 1 => Len(parse.vacancies) <= parse.limit)
    /\ [][\A content \in PageContents, raises \in BOOLEAN :
            parse_page(content, raises)
            => LET old == Len(parse.vacancies)
                   added == [k \in 1..(Len(parse'.vacancies) - old) |->
                                parse'.vacancies[old + k]]
                   passing == {i \in DOMAIN content.items : Accepted(content.items[i])}
               IN  /\ \A k \in 1..old : parse'.vacancies[k] = parse.vacancies[k]
                   /\ \A k \in DOMAIN added :
                         /\ added[k][1] = parse.page
                         /\ added[k][2] \in passing
                         /\ \A i \in passing :
                               i < added[k][2] => \E l \in 1..(k - 1) : added[l][2] = i
                   /\ parse'.pc # "raised" /\ parse'.last_page = "items"
                      => Len(added) = IF parse.limit >= 1
                                      THEN Min(Cardinality(passing), parse.limit - old)
                                      ELSE Cardinality(passing)
                   /\ parse'.pc = "paging" => ~LimitReached(parse.limit, parse'.vacancies)]_vars

\* with limit 1 and the city filter on, page 1 had only an item of another
\* city and page 2 two matching items: the first of them was returned
C18_Witness ==
    /\ parse.pc = "returned"
    /\ parse.limit = 1 /\ parse.city
    /\ parse.fetched = 2
    /\ parse.vacancies = << <<2, 1>> >>

\* C19 as stated: parse_vacancies never raises because the progress
\* callback raised.
C19_CallbackErrorIsSwallowed == parse.cause # "callback"

\* C20 as stated: parse_vacancies never raises because of a listing item.
C20_ItemNeverAbortsRun == parse.cause # "item"

\* C21: a check run whose scrape raises ParserError ends there: the step
\* inserts no record, hands no message to the bot, leaves last_check of
\* every task, the timers and the scheduler's jobs as they were, and the
\* run is over (the handler of the run logs the exception).
C21_ScrapeErrorEndsRunQuietly ==
    [][\A r \in DOMAIN runs :
          check_new_vacancies_scrape_error(r)
          => /\ vacancies' = vacancies
             /\ outbox' = outbox /\ handed' = handed
             /\ tasks' = tasks
             /\ task_jobs' = task_jobs /\ jobs' = jobs
             /\ runs'[r] = Ended
             /\ \A q \in DOMAIN runs : q # r => runs'[q] = runs[q]]_vars

\* the timer of task 1 is registered, every run is over and no task has
\* a last_check: the initial run of the timer ended in a scrape error
C21_Witness ==
    /\ 1 \in DOMAIN task_jobs
    /\ Len(runs) >= 1 /\ AllEnded
    /\ \A t \in Tasks : tasks[t].exists /\ tasks[t].is_active /\ tasks[t].last_check = 0
    /\ \A f \in Filters : filters[f].exists /\ filters[f].is_active

\* the VacancyRecord invariants on a record
VacancyRecordInvariants(rec) ==
    /\ rec.external_id # ""
    /\ rec.company_name.set /\ rec.company_name.value # ""
    /\ rec.position.set /\ rec.position.value # ""
    /\ rec.vacancies_count.set => rec.vacancies_count.value >= 0
    /\ rec.url.set => rec.url.scheme \in {"http", "https"}

\* an item that has a position and a company name and whose data meet
\* the invariants
ValidItem(kind) ==
    /\ Item(kind).title.set /\ Item(kind).title.value \notin {"", " "}
    /\ Item(kind).org.set /\ Item(kind).org.value \notin {"", " "}
    /\ VacancyRecordInvariants(vacancy_data(kind))

\* C22: every record a pass over a page adds to the list satisfies the
\* VacancyRecord invariants; an item that is not valid is never added;
\* and when no filter and no limit is active, a pass that does not raise
\* adds exactly the valid items of the page, in page order.
C22_ReturnedRecordsAreValid ==
    [][\A content \in PageContents, raises \in BOOLEAN :
          parse_page(content, raises)
          => LET old == Len(parse.vacancies)
                 added == [k \in 1..(Len(parse'.vacancies) - old) |->
                              parse'.vacancies[old + k]]
                 valid == {i \in DOMAIN content.items : ValidItem(content.items[i])}
             IN  /\ \A k \in DOMAIN added :
                       /\ added[k][2] \in valid
                       /\ VacancyRecordInvariants(vacancy_data(content.items[added[k][2]]))
                       /\ \A l \in DOMAIN added : l < k => added[l][2] < added[k][2]
                 /\ parse.limit = 0 /\ ~parse.city /\ ~parse.company /\ parse'.pc # "raised"
                    => {added[k][2] : k \in DOMAIN added} = valid]_vars

\* page 1 held an item with a mailto link and one whose title is no
\* link: the second is the only record returned
C22_Witness ==
    /\ parse.pc = "returned"
    /\ parse.limit = 0 /\ ~parse.city /\ ~parse.company
    /\ parse.vacancies = << <<1, 2>> >>

\* C23 as stated: no two network GETs of one fetcher are issued without a
\* completed wait() between them.
C23_WaitBeforeEveryGet == fetch.gets_since_wait <= 1

\* C24: a call the throttler vetoed has slept 5 seconds, once, by the time
\* it waits for the rate limiter (and a call that was not vetoed has not);
\* it then waits for the rate limiter once and, given retries >= 1, makes
\* a network attempt; it returns None only as a call that was not vetoed
\* does: with no attempt allowed, or after an attempt that did not give
\* the body.
C24_VetoOnlyDelays ==
    /\ fetch.vetoed /\ fetch.pc \in {"waiting", "running", "returned"} => fetch.cooldown = 5
    /\ ~fetch.vetoed => fetch.cooldown = 0
    /\ fetch.vetoed /\ fetch.pc \in {"running", "returned"} => fetch.waits = 1
    /\ fetch.vetoed /\ fetch.pc = "returned" /\ fetch.retries >= 1 => Len(fetch.seen) >= 1
    /\ fetch.vetoed /\ fetch.pc = "returned" /\ fetch.result.kind = "null"
       => \/ fetch.retries <= 0
          \/ ~(fetch.seen[Len(fetch.seen)].kind = "status"
               /\ fetch.seen[Len(fetch.seen)].status = 200)

\* a vetoed call returned the body of the page
C24_Witness ==
    /\ fetch.vetoed
    /\ fetch.pc = "returned"
    /\ fetch.result.kind = "body"

\* the timestamps of the throttler that are less than w seconds old
Young(w) == {i \in DOMAIN throttler.request_times :
                throttler.clock - throttler.request_times[i] < w}
\* how often t is among the timestamps q
Count(q, t) == Cardinality({i \in DOMAIN q : q[i] = t})

\* C25: can_make_request() answers False exactly when the timestamps
\* younger than 3600 s are at least requests_per_hour or those younger
\* than 60 s at least requests_per_minute; after it no timestamp is 3600 s
\* old or older, and none was added; record_request() appends one
\* timestamp and keeps the others.
C25_ThrottlerWindows ==
    [][/\ can_make_request_call
          => /\ ret'.ok = ~(\/ Cardinality(Young(3600)) >= throttler.requests_per_hour
                            \/ Cardinality(Young(60)) >= throttler.requests_per_minute)
             /\ \A i \in DOMAIN throttler'.request_times :
                   throttler'.clock - throttler'.request_times[i] < 3600
             /\ \A t \in Times :
                   Count(throttler'.request_times, t) <= Count(throttler.request_times, t)
       /\ record_request_call
          => /\ Len(throttler'.request_times) = Len(throttler.request_times) + 1
             /\ \A i \in DOMAIN throttler.request_times :
                   throttler'.request_times[i] = throttler.request_times[i]]_vars

\* can_make_request() has just answered False because of the hourly limit
\* alone, after dropping a timestamp of an hour ago
C25_Witness ==
    /\ ret = Called("can_make_request", 0, FALSE)
    /\ Len(throttler.request_times) >= throttler.requests_per_hour
    /\ Cardinality(Young(60)) < throttler.requests_per_minute
    /\ throttler.clock >= 3600

\* C26: a caller that is in wait(), queued on the lock or asleep, gets
\* out of it; and a call on a limiter that has no last_request_time
\* returns in the step in which it gets the lock, without a sleep.
C26_WaitReturns ==
    /\ \A c \in Callers : callers[c].pc \in {"queued", "sleeping"} ~> callers[c].pc = "out"
    /\ [][\A c \in Callers, p \in Parsers, delay \in JitteredDelays :
            limiter_wait(c, p, delay) /\ ~limiter[p].last_request_time.set
            => /\ callers'[c].pc = "out"
               /\ Len(requests') = Len(requests) + 1
               /\ requests'[Len(requests')].caller = c]_vars

\* a caller that had to queue on the lock has slept in wait() and is
\* the last to have returned from it, after the caller that held the lock
C26_Witness ==
    \E c, d \in Callers :
        /\ c # d
        /\ callers[c].pc = "out" /\ callers[c].queued
        /\ Len(requests) >= 2
        /\ requests[Len(requests)].caller = c
        /\ requests[Len(requests)].delay > 0
        /\ requests[Len(requests) - 1].caller = d

C28_EachPageFetchedOnce ==
    \A i, j \in DOMAIN parse.pages : i < j => parse.pages[i] < parse.pages[j]

\* C28, amended: a run fetches page 1 for get_total_pages and then, in its
\* loop, the pages 1, 2, 3, ... in this order, each once; a pass of the
\* loop fetches one page, the one after the pages fetched so far, and the
\* records it adds are of that page, so that they are in the list before
\* the next page is fetched.
C28_LoopFetchesInOrder ==
    /\ [](parse.pc # "idle"
          => /\ Len(parse.pages) = parse.fetched + 1
             /\ parse.pages[1] = 1
             /\ \A k \in 2..Len(parse.pages) : parse.pages[k] = k - 1)
    /\ [][PageStep
          => /\ parse'.pages = Append(parse.pages, parse.fetched + 1)
             /\ \A k \in (Len(parse.vacancies) + 1)..Len(parse'.vacancies) :
                   parse'.vacancies[k][1] = parse.fetched + 1]_vars

\* a run has fetched page 1 twice, then pages 2 and 3, and returned the
\* record it found on page 3
C28_Witness ==
    /\ parse.pc = "returned"
    /\ parse.pages = <<1, 1, 2, 3>>
    /\ Len(parse.vacancies) = 1
    /\ parse.vacancies[1][1] = 3

\* C29 as stated: after every page the run processes, a page whose fetch
\* failed and the last page before the run stops included, the progress
\* callback is called with (the page, the pages planned, the number of
\* items accumulated so far).
C29_ProgressAfterEveryPage ==
    [][PageStep /\ parse.progress_callback /\ parse'.cause # "item"
       => parse'.reported = Report(parse.page, parse.max_pages_to_try,
                                   Len(parse'.vacancies))]_vars

\* C30 as stated: a pass of the loop ends in the sleep between pages
\* exactly when the run goes on to fetch another page.
C30_DelayBetweenFetchedPages ==
    [][PageStep /\ parse'.pc # "raised"
       => (parse'.delayed <=> parse'.pc = "paging")]_vars

\* C31: with detail enrichment enabled the failure counter is the number
\* of detail fetches that failed in a row since the last one that
\* succeeded; once it is max_detail_errors no later item has its detail
\* page fetched; and the run goes on: every accepted item, whatever became
\* of its detail page, is in the result.
RECURSIVE FailedInARow(_)
FailedInARow(outcomes) ==
    IF outcomes = << >> THEN 0
    ELSE LET n == Len(outcomes)
             before == SubSeq(outcomes, 1, n - 1)
         IN  CASE outcomes[n] = "fetched" -> 0
               [] outcomes[n] = "failed" -> FailedInARow(before) + 1
               [] OTHER -> FailedInARow(before)
C31_DetailFailuresDegrade ==
    detail.pc # "idle" /\ detail.fetch_details =>
        /\ detail.detail_fetch_errors = FailedInARow(detail.vacancies)
        /\ \A i \in DOMAIN detail.vacancies :
               FailedInARow(SubSeq(detail.vacancies, 1, i - 1)) >= max_detail_errors
                   => detail.vacancies[i] = "skipped"
        /\ Len(detail.vacancies) = detail.accepted
C31_Witness ==
    /\ detail.pc = "returned" /\ detail.fetch_details
    /\ detail.detail_fetch_errors = max_detail_errors
    /\ \E i \in DOMAIN detail.vacancies : detail.vacancies[i] = "fetched"
    /\ detail.vacancies[Len(detail.vacancies)] = "skipped"
    /\ Len(detail.vacancies) = MaxAccepted

\* C32: get_total_pages returns 1 when the first page cannot be fetched;
\* when a pagination control is found, the largest number among the
\* numeric texts and the page=N of its links; when none is found and the
\* page has at least page_size items, the fallback; otherwise 1.  So the
\* fallback is returned as such only for a page without a control.
LinkNumbers(links) ==
    {links[i].number : i \in {j \in DOMAIN links : links[j].text = "number"}}
    \cup {links[i].href_page : i \in {j \in DOMAIN links : links[j].href_page > 0}}
SetMax(S) == CHOOSE x \in S : \A y \in S : y <= x
C32_PaginationDiscovery ==
    pagination.pc = "returned" =>
        LET page == pagination.page
        IN  pagination.result =
              IF ~page.html THEN 1
              ELSE IF page.control
              THEN (IF LinkNumbers(page.links) = {} THEN 1
                    ELSE SetMax(LinkNumbers(page.links)))
              ELSE IF page.job_blocks >= page_size THEN fallback_pages ELSE 1

\* C33: after the shutdown of the service every started task has been
\* stopped: the timer map _task_jobs is empty and no check run that the
\* scheduler launched is still under way.
C33_ShutdownStopsEveryTask ==
    scheduler = "stopped" =>
        /\ DOMAIN task_jobs = {}
        /\ \A r \in DOMAIN runs : runs[r].origin = "interval" => runs[r].pc = "done"

\* C34: whatever was started and stopped, by callers or by check runs
\* that found stale state, the timer map and the scheduler agree: a task
\* is a key of _task_jobs exactly when the job monitor_task_<id> is
\* scheduled, the map names that job, and no task has two jobs.
C34_TimerMapAgreesWithScheduler ==
    \A t \in Tasks :
        /\ t \in DOMAIN task_jobs <=> job_id(t) \in DOMAIN jobs
        /\ t \in DOMAIN task_jobs => task_jobs[t] = job_id(t)
        /\ Cardinality({j \in DOMAIN jobs : jobs[j].args = t}) <= 1
C34_Witness ==
    /\ ret = Called("stop", 2, TRUE)
    /\ DOMAIN task_jobs = {1}
    /\ DOMAIN jobs = {job_id(1)}
    /\ \E r \in DOMAIN runs : runs[r].pc = "done" /\ runs[r].task = 0

\* C35: a check run of a task that has been stopped (its timer is gone:
\* every run here was launched by a start or by the timer, so only a
\* successful stop can have removed it) inserts no record and delivers no
\* notification, even if it had passed its checks before the stop.
C35_StoppedTaskHasNoEffects ==
    [][\A r \in DOMAIN runs :
          runs[r].task \in Tasks /\ runs[r].task \notin DOMAIN task_jobs =>
              /\ \A vs \in ShortScrapes, failAt \in 0..MaxScrapeLen, g \in BOOLEAN :
                     check_new_vacancies_scraped(r, vs, failAt, g)
                         => vacancies' = vacancies
              /\ \A d \in BOOLEAN : send_message(r, d) => outbox' = outbox]_vars

\* C36: every record a check run has inserted into the store has been
\* given to the notification step of that run (here check runs are the
\* only writers of the store, and a run inserts and hands over without
\* an await in between): no record is stored and never handed over.
C36_InsertedRecordsAreHanded ==
    \A v \in AllVacancyData : vacancies[v] > 0 => handed[v] > 0

\* C38: an item whose title has no link, or whose link has no
\* /vacancy/<digits>/ segment, gets the external_id "unknown", which the
\* validator of the required fields accepts; the items of this kind that
\* are returned share one key of the store, so over all runs at most one
\* row is stored and handed over for notification under it, and once it
\* is stored every later listing of this kind is skipped as known.
NoVacancyLink(kind) ==
    LET url == vacancy_data(kind).url
    IN  ~url.set \/ url.path # "/directory/vacancy/7/"
UnknownKey == VacancyData(ExternalIdNumber("unknown"))
C38_UnknownIdsShareOneKey ==
    /\ [](/\ validate_required_fields("unknown")
          /\ \A kind \in ItemKinds :
                NoVacancyLink(kind) => vacancy_data(kind).external_id = "unknown"
          /\ \A kind \in ListingKinds :
                NoVacancyLink(kind) => StoreRecord(kind) = UnknownKey
          /\ vacancies[UnknownKey] <= 1
          /\ handed[UnknownKey] <= 1)
    /\ [][vacancies[UnknownKey] > 0 =>
             /\ vacancies'[UnknownKey] = vacancies[UnknownKey]
             /\ handed'[UnknownKey] = handed[UnknownKey]]_vars
\* two runs have scraped listings without a vacancy link only: one row
C38_Witness ==
    /\ {"no_link", "plain_link"} \subseteq ListingKinds
    /\ tasks[1].last_check = 2
    /\ \A r \in DOMAIN runs : runs[r].pc = "done"
    /\ vacancies[UnknownKey] = 1 /\ handed[UnknownKey] = 1
    /\ \A v \in AllVacancyData \ {UnknownKey} : vacancies[v] = 0

\* C37: the requests a fetcher records with its throttler stay within the
\* limits: no window of 60 seconds holds more than requests_per_minute of
\* the recorded timestamps and no window of 3600 seconds more than
\* requests_per_hour, the retries of one call of _fetch_page included.
InWindow(start, length) ==
    {j \in DOMAIN throttler.request_times :
        /\ start <= throttler.request_times[j]
        /\ throttler.request_times[j] < start + length}
C37_FetchesStayWithinLimits ==
    \A i \in DOMAIN throttler.request_times :
        /\ Cardinality(InWindow(throttler.request_times[i], minute))
              <= throttler.requests_per_minute
        /\ Cardinality(InWindow(throttler.request_times[i], hour))
              <= throttler.requests_per_hour

\* C39: a 429 whose Retry-After is not a number of seconds does not end
\* the call: when it is not the last attempt the generic backoff of
\* 2^attempt seconds plus jitter is taken after it and the next attempt is
\* made; the call returns only with the body of a later 200, with None at
\* a later 404, or with None after the last of the `retries` attempts.
NotANumber(o) ==
    o.kind = "status" /\ o.status = 429 /\ o.retry_after.form = "date"
C39_BadRetryAfterIsRetried ==
    \A i \in DOMAIN fetch.seen :
        NotANumber(fetch.seen[i]) =>
            /\ fetch.pc \in {"running", "returned"}
            /\ i < fetch.retries
                  => \E k \in DOMAIN fetch.sleeps :
                         fetch.sleeps[k] = Sleep(i - 1, 2 ^ (i - 1), 1)
            /\ i = fetch.retries
                  => \A k \in DOMAIN fetch.sleeps : fetch.sleeps[k].after # i - 1
            /\ fetch.pc = "running" => Len(fetch.seen) < fetch.retries
            /\ fetch.pc = "returned" /\ i = Len(fetch.seen)
                  => i = fetch.retries /\ fetch.result = [kind |-> "null", attempt |-> i - 1]
            /\ fetch.pc = "returned" /\ i < Len(fetch.seen)
                  => LET last == fetch.seen[Len(fetch.seen)]
                     IN  \/ /\ last.kind = "status" /\ last.status = 200
                            /\ fetch.result = [kind |-> "body", attempt |-> Len(fetch.seen) - 1]
                         \/ /\ last.kind = "status" /\ last.status = 404
                            /\ fetch.result.kind = "null"
                         \/ /\ Len(fetch.seen) = fetch.retries
                            /\ fetch.result.kind = "null"
\* the first attempt got such a 429, the second a 200 whose body was
\* returned, with the generic backoff between them
C39_Witness ==
    /\ fetch.pc = "returned"
    /\ Len(fetch.seen) = 2
    /\ NotANumber(fetch.seen[1])
    /\ fetch.seen[2].status = 200
    /\ fetch.sleeps = <<Sleep(0, 1, 1)>>
    /\ fetch.result = [kind |-> "body", attempt |-> 1]
====
